---- MODULE Spec2Model ----
(***************************************************************************)
(* Model of the closed-loop PID simulation engine of Pid-Simulator-Pro.    *)
(* This part models AdvancedPIDController (src/src/js/advanced-pid.js).    *)
(*                                                                         *)
(* JavaScript numbers are modelled as exact rationals n/d plus the three   *)
(* IEEE-754 special values +Infinity, -Infinity and NaN, with the          *)
(* arithmetic and comparison rules of the language for the special values  *)
(* (x/0, 0*Infinity, Infinity-Infinity, NaN comparisons, Math.max/min of   *)
(* NaN).  Rounding of finite results is not modelled, and the sign of zero *)
(* is not modelled: every divisor of the modelled code is either a         *)
(* positive dt or a gain passed in by the caller.                          *)
(***************************************************************************)
EXTENDS Integers, Sequences, FiniteSets, TLC

\* ------------------------------------------------------------------------
\* Numbers
\* ------------------------------------------------------------------------

RECURSIVE GCD(_, _)
GCD(a, b) ==
    IF b = 0 THEN a ELSE GCD(b, a % b)

IAbs(i) ==
    IF i < 0 THEN -i ELSE i

NaN ==
    [k |-> "nan", n |-> 0, d |-> 1]

PInf ==
    [k |-> "pinf", n |-> 0, d |-> 1]

NInf ==
    [k |-> "ninf", n |-> 0, d |-> 1]

\* the JavaScript value undefined (an absent option or argument)
Undef ==
    [k |-> "undef", n |-> 0, d |-> 1]

\* the finite number n/d (d # 0), in lowest terms with a positive denominator
Q(n, d) ==
    LET g == GCD(IAbs(n), IAbs(d))
        s == IF d < 0 THEN -1 ELSE 1
    IN  [k |-> "fin", n |-> s * (n \div g), d |-> s * (d \div g)]

N(i) ==
    [k |-> "fin", n |-> i, d |-> 1]

Zero ==
    N(0)

IsFin(x) ==
    x.k = "fin"

IsNaN(x) ==
    x.k = "nan"

IsInf(x) ==
    x.k \in {"pinf", "ninf"}

\* -1, 0 or 1; only for values that are not NaN
Sign(x) ==
    CASE x.k = "pinf" -> 1
      [] x.k = "ninf" -> -1
      [] OTHER -> IF x.n > 0 THEN 1 ELSE IF x.n < 0 THEN -1 ELSE 0

InfOfSign(s) ==
    IF s > 0 THEN PInf ELSE NInf

Neg(x) ==
    CASE x.k = "nan" -> NaN
      [] x.k = "pinf" -> NInf
      [] x.k = "ninf" -> PInf
      [] OTHER -> [k |-> "fin", n |-> -x.n, d |-> x.d]

\* a + b
Add(a, b) ==
    IF IsNaN(a) \/ IsNaN(b) THEN NaN
    ELSE IF IsInf(a) /\ IsInf(b) THEN (IF a.k = b.k THEN a ELSE NaN)
    ELSE IF IsInf(a) THEN a
    ELSE IF IsInf(b) THEN b
    ELSE Q(a.n * b.d + b.n * a.d, a.d * b.d)

\* a - b
Sub(a, b) ==
    Add(a, Neg(b))

\* a * b
Mul(a, b) ==
    IF IsNaN(a) \/ IsNaN(b) THEN NaN
    ELSE IF IsInf(a) \/ IsInf(b)
         THEN (IF Sign(a) * Sign(b) = 0 THEN NaN ELSE InfOfSign(Sign(a) * Sign(b)))
    ELSE Q(a.n * b.n, a.d * b.d)

\* a / b
Div(a, b) ==
    IF IsNaN(a) \/ IsNaN(b) THEN NaN
    ELSE IF IsInf(a) /\ IsInf(b) THEN NaN
    ELSE IF IsInf(a) THEN InfOfSign(Sign(a) * (IF Sign(b) < 0 THEN -1 ELSE 1))
    ELSE IF IsInf(b) THEN Zero
    ELSE IF b.n = 0 THEN (IF a.n = 0 THEN NaN ELSE InfOfSign(Sign(a)))
    ELSE Q(a.n * b.d, a.d * b.n)

\* a < b (false when either is NaN)
Lt(a, b) ==
    IF IsNaN(a) \/ IsNaN(b) THEN FALSE
    ELSE IF a.k = "pinf" \/ b.k = "ninf" THEN FALSE
    ELSE IF a.k = "ninf" \/ b.k = "pinf" THEN TRUE
    ELSE a.n * b.d < b.n * a.d

\* a <= b (false when either is NaN)
Le(a, b) ==
    IF IsNaN(a) \/ IsNaN(b) THEN FALSE
    ELSE a = b \/ Lt(a, b)

\* a >= b
Ge(a, b) ==
    Le(b, a)

\* a !== b for two numbers (NaN differs from everything, itself included)
StrictNeq(a, b) ==
    IsNaN(a) \/ IsNaN(b) \/ a # b

\* Math.abs
MathAbs(x) ==
    CASE x.k = "nan" -> NaN
      [] x.k \in {"pinf", "ninf"} -> PInf
      [] OTHER -> [k |-> "fin", n |-> IAbs(x.n), d |-> x.d]

\* Math.max(a, b)
MathMax(a, b) ==
    IF IsNaN(a) \/ IsNaN(b) THEN NaN
    ELSE IF Lt(a, b) THEN b ELSE a

\* Math.min(a, b)
MathMin(a, b) ==
    IF IsNaN(a) \/ IsNaN(b) THEN NaN
    ELSE IF Lt(b, a) THEN b ELSE a

\* x || dflt for a number or undefined x: 0, NaN and undefined are falsy
OrDefault(x, dflt) ==
    IF x.k \in {"undef", "nan"} \/ (x.k = "fin" /\ x.n = 0) THEN dflt ELSE x

\* s || dflt for a string or undefined s: "" and undefined are falsy
OrDefaultStr(s, dflt) ==
    IF s \in {"", "undefined"} THEN dflt ELSE s

\* ------------------------------------------------------------------------
\* AdvancedPIDController
\* ------------------------------------------------------------------------

\* capacity of metrics.lastOutputs
MaxLastOutputs ==
    50

\* new AdvancedPIDController(Kp, Ki, Kd, options); an absent option is Undef
\* (or "undefined" for the two string options)
AdvancedPIDController(Kp, Ki, Kd, options) ==
    [ Kp |-> Kp,
      Ki |-> Ki,
      Kd |-> Kd,
      config |->
        [ outputMin |-> OrDefault(options.outputMin, N(-100)),
          outputMax |-> OrDefault(options.outputMax, N(100)),
          derivativeFilter |-> OrDefault(options.derivativeFilter, Q(1, 10)),
          setpointWeightP |-> OrDefault(options.setpointWeightP, N(1)),
          setpointWeightD |-> OrDefault(options.setpointWeightD, N(0)),
          integralMode |-> OrDefaultStr(options.integralMode, "standard"),
          antiWindupMethod |-> OrDefaultStr(options.antiWindupMethod, "clamping") ],
      state |->
        [ lastError |-> Zero,
          lastPV |-> Zero,
          integralSum |-> Zero,
          derivativeFiltered |-> Zero,
          lastOutput |-> Zero,
          isManual |-> FALSE,
          manualOutput |-> Zero ],
      terms |->
        [ proportional |-> Zero,
          integral |-> Zero,
          derivative |-> Zero,
          total |-> Zero ],
      metrics |->
        [ integralAbsoluteError |-> Zero,
          integralSquaredError |-> Zero,
          integralTimeAbsoluteError |-> Zero,
          maxOutput |-> Zero,
          outputVariability |-> Zero,
          lastOutputs |-> << >> ],
      simulationTime |-> Zero ]

\* sum of |s[i+1] - s[i]| for i in from..Len(s)-1
RECURSIVE SumChanges(_, _)
SumChanges(s, from) ==
    IF from >= Len(s) THEN Zero
    ELSE Add(MathAbs(Sub(s[from + 1], s[from])), SumChanges(s, from + 1))

\* updateMetrics(error, output, deltaTime): the new metrics of controller p
updateMetrics(p, error, output, deltaTime) ==
    LET m == p.metrics
        pushed == Append(m.lastOutputs, output)
        outs == IF Len(pushed) > MaxLastOutputs THEN Tail(pushed) ELSE pushed
    IN  [ integralAbsoluteError |->
            Add(m.integralAbsoluteError, Mul(MathAbs(error), deltaTime)),
          integralSquaredError |->
            Add(m.integralSquaredError, Mul(Mul(error, error), deltaTime)),
          integralTimeAbsoluteError |->
            Add(m.integralTimeAbsoluteError,
                Mul(Mul(p.simulationTime, MathAbs(error)), deltaTime)),
          maxOutput |-> MathMax(m.maxOutput, MathAbs(output)),
          outputVariability |->
            IF Len(outs) > 1
            THEN Div(SumChanges(outs, 1), N(Len(outs) - 1))
            ELSE m.outputVariability,
          lastOutputs |-> outs ]

\* updateManual with a manual branch that keeps tracking the inputs: it
\* stores the error and the process variable of the tick as an automatic tick
\* does
updateManualTracking(p, setpoint, processVariable, deltaTime) ==
    [ pid |-> [p EXCEPT !.state.lastOutput = p.state.manualOutput,
                        !.state.lastError = Sub(setpoint, processVariable),
                        !.state.lastPV = processVariable],
      ret |-> p.state.manualOutput,
      sat |-> FALSE ]

\* update in manual mode: the stored manual output, verbatim
updateManual(p, setpoint, processVariable, deltaTime) ==
    [ pid |-> [p EXCEPT !.state.lastOutput = p.state.manualOutput],
      ret |-> p.state.manualOutput,
      sat |-> FALSE ]

\* the integral accumulator after this tick's integration
integrate(p, error, deltaTime) ==
    IF p.config.integralMode = "conditional"
    THEN LET wouldSaturate ==
                 Ge(MathAbs(p.state.lastOutput),
                    MathAbs(Mul(p.config.outputMax, Q(95, 100))))
         IN  IF ~wouldSaturate \/ Lt(Mul(error, p.state.integralSum), Zero)
             THEN Add(p.state.integralSum, Mul(error, deltaTime))
             ELSE p.state.integralSum
    ELSE Add(p.state.integralSum, Mul(error, deltaTime))

\* Math.max(outputMin, Math.min(outputMax, output))
saturate(p, output) ==
    MathMax(p.config.outputMin, MathMin(p.config.outputMax, output))

\* the anti-windup step, given saturatedOutput = saturate(p, output): the
\* accumulator, integral term and output it leaves
antiWindupFrom(p, integralSum, integralTerm, output, saturatedOutput, deltaTime) ==
    IF p.config.antiWindupMethod = "clamping"
    THEN IF StrictNeq(saturatedOutput, output)
         THEN [ integralSum |->
                  Sub(integralSum, Div(Sub(output, saturatedOutput), p.Ki)),
                integral |->
                  Mul(p.Ki,
                      Sub(integralSum, Div(Sub(output, saturatedOutput), p.Ki))),
                output |-> saturatedOutput, sat |-> TRUE ]
         ELSE [ integralSum |-> integralSum, integral |-> integralTerm,
                output |-> output, sat |-> FALSE ]
    ELSE IF p.config.antiWindupMethod = "back-calculation"
    THEN IF StrictNeq(saturatedOutput, output) /\ p.Ki # Zero
         THEN [ integralSum |->
                  Add(integralSum,
                      Mul(Div(Sub(saturatedOutput, output), N(1)), deltaTime)),
                integral |->
                  Mul(p.Ki,
                      Add(integralSum,
                          Mul(Div(Sub(saturatedOutput, output), N(1)), deltaTime))),
                output |-> saturatedOutput, sat |-> TRUE ]
         ELSE [ integralSum |-> integralSum, integral |-> integralTerm,
                output |-> saturatedOutput,
                sat |-> StrictNeq(saturatedOutput, output) ]
    ELSE [ integralSum |-> integralSum, integral |-> integralTerm,
           output |-> output, sat |-> FALSE ]

\* the anti-windup step on the sum of the three terms
antiWindup(p, integralSum, integralTerm, output, deltaTime) ==
    antiWindupFrom(p, integralSum, integralTerm, output, saturate(p, output),
                   deltaTime)

\* Kp * (setpointWeightP * setpoint - processVariable)
proportionalTerm(p, setpoint, processVariable) ==
    Mul(p.Kp, Sub(Mul(p.config.setpointWeightP, setpoint), processVariable))

\* the low-pass filtered derivative of the process variable
filterDerivative(p, processVariable, deltaTime) ==
    Add(Mul(p.config.derivativeFilter,
            Neg(Div(Sub(processVariable, p.state.lastPV), deltaTime))),
        Mul(Sub(N(1), p.config.derivativeFilter), p.state.derivativeFiltered))

\* Kd * (derivativeFiltered + derivativeSetpointEffect)
derivativeTerm(p, setpoint, deltaTime, derivativeFiltered) ==
    Mul(p.Kd,
        Add(derivativeFiltered,
            Div(Mul(p.config.setpointWeightD, Sub(setpoint, p.state.lastPV)),
                deltaTime)))

\* the end of update: metrics, then the values stored for the next tick
commit(p, processVariable, deltaTime, error, proportional, derivativeFiltered, derivative, aw) ==
    [ pid |->
        [p EXCEPT
           !.terms = [ proportional |-> proportional,
                       integral |-> aw.integral,
                       derivative |-> derivative,
                       total |-> aw.output ],
           !.metrics = updateMetrics(p, error, aw.output, deltaTime),
           !.state.integralSum = aw.integralSum,
           !.state.derivativeFiltered = derivativeFiltered,
           !.state.lastError = error,
           !.state.lastPV = processVariable,
           !.state.lastOutput = aw.output],
      ret |-> aw.output,
      sat |-> aw.sat ]

\* the output assembly of update, from the three computed pieces
assemble(p, processVariable, deltaTime, error, proportional, integralSum, derivativeFiltered, derivative) ==
    commit(p, processVariable, deltaTime, error, proportional,
           derivativeFiltered, derivative,
           antiWindup(p, integralSum, Mul(p.Ki, integralSum),
                      Add(Add(proportional, Mul(p.Ki, integralSum)), derivative),
                      deltaTime))

\* the three terms of update, from the filtered derivative
computeTerms(p, setpoint, processVariable, deltaTime, error, derivativeFiltered) ==
    assemble(p, processVariable, deltaTime, error,
             proportionalTerm(p, setpoint, processVariable),
             integrate(p, error, deltaTime),
             derivativeFiltered,
             derivativeTerm(p, setpoint, deltaTime, derivativeFiltered))

\* update in automatic mode (p.simulationTime is already advanced)
updateAuto(p, setpoint, processVariable, deltaTime) ==
    computeTerms(p, setpoint, processVariable, deltaTime,
                 Sub(setpoint, processVariable),
                 filterDerivative(p, processVariable, deltaTime))

\* the time step of update: simulationTime += deltaTime, before any guard
advanceTime(p, deltaTime) ==
    [p EXCEPT !.simulationTime = Add(p.simulationTime, deltaTime)]

\* update(setpoint, processVariable, deltaTime): the controller after the
\* call, the value returned, and whether the output hit a limit
update(p, setpoint, processVariable, deltaTime) ==
    LET q == advanceTime(p, deltaTime)
    IN  IF Le(deltaTime, Zero)
        THEN [pid |-> q, ret |-> q.state.lastOutput, sat |-> FALSE]
        ELSE IF q.state.isManual
        THEN updateManual(q, setpoint, processVariable, deltaTime)
        ELSE updateAuto(q, setpoint, processVariable, deltaTime)

setGains(p, Kp, Ki, Kd) ==
    [p EXCEPT !.Kp = Kp, !.Ki = Ki, !.Kd = Kd]

setOutputLimits(p, min, max) ==
    [p EXCEPT !.config.outputMin = min, !.config.outputMax = max]

setSetpointWeighting(p, weightP, weightD) ==
    [p EXCEPT !.config.setpointWeightP = weightP,
              !.config.setpointWeightD = weightD]

setDerivativeFilter(p, alpha) ==
    [p EXCEPT !.config.derivativeFilter = alpha]

\* the integral accumulator and term after a manual -> automatic transfer
transferToAuto(p) ==
    [p EXCEPT !.state.integralSum = Div(p.state.manualOutput, p.Ki),
              !.terms.integral = p.state.manualOutput]

\* the automatic -> manual transfer
transferToManual(p) ==
    [p EXCEPT !.state.manualOutput = p.state.lastOutput]

\* setManualMode(isManual, manualOutput = 0); manualOutput is Undef when the
\* caller omits it
setManualMode(p, isManual, manualOutput) ==
    LET mo == IF manualOutput = Undef THEN Zero ELSE manualOutput
        q == IF isManual /\ ~p.state.isManual THEN transferToManual(p)
             ELSE IF ~isManual /\ p.state.isManual THEN transferToAuto(p)
             ELSE p
        r == [q EXCEPT !.state.isManual = isManual]
    IN  IF isManual THEN [r EXCEPT !.state.manualOutput = mo] ELSE r

\* reset that forgets the filtered derivative
resetKeepsDerivative(p) ==
    [p EXCEPT
       !.state = [ lastError |-> Zero, lastPV |-> Zero, integralSum |-> Zero,
                   derivativeFiltered |-> p.state.derivativeFiltered,
                   lastOutput |-> Zero,
                   isManual |-> FALSE, manualOutput |-> Zero ],
       !.terms = [ proportional |-> Zero, integral |-> Zero,
                   derivative |-> Zero, total |-> Zero ],
       !.metrics = [ integralAbsoluteError |-> Zero,
                     integralSquaredError |-> Zero,
                     integralTimeAbsoluteError |-> Zero,
                     maxOutput |-> Zero,
                     outputVariability |-> Zero,
                     lastOutputs |-> << >> ],
       !.simulationTime = Zero]

\* reset(): state, terms, metrics and simulationTime back to their initial
\* values; gains and config untouched
reset(p) ==
    [p EXCEPT
       !.state = [ lastError |-> Zero, lastPV |-> Zero, integralSum |-> Zero,
                   derivativeFiltered |-> Zero, lastOutput |-> Zero,
                   isManual |-> FALSE, manualOutput |-> Zero ],
       !.terms = [ proportional |-> Zero, integral |-> Zero,
                   derivative |-> Zero, total |-> Zero ],
       !.metrics = [ integralAbsoluteError |-> Zero,
                     integralSquaredError |-> Zero,
                     integralTimeAbsoluteError |-> Zero,
                     maxOutput |-> Zero,
                     outputVariability |-> Zero,
                     lastOutputs |-> << >> ],
       !.simulationTime = Zero]

\* getTerms that hands the terms out and clears them (read-and-reset)
getTermsAndClear(p) ==
    [ pid |-> [p EXCEPT !.terms = [ proportional |-> Zero, integral |-> Zero,
                                    derivative |-> Zero, total |-> Zero ]],
      snap |-> p.terms ]

\* getTerms(): a copy of the terms
getTerms(p) ==
    [pid |-> p, snap |-> p.terms]

\* getConfiguration(): copies of gains, config and state
getConfiguration(p) ==
    [ pid |-> p,
      snap |-> [ gains |-> [Kp |-> p.Kp, Ki |-> p.Ki, Kd |-> p.Kd],
                 config |-> p.config,
                 state |-> p.state ] ]

\* ------------------------------------------------------------------------
\* MechanicalSystem (src/src/js/plant-models.js)
\* ------------------------------------------------------------------------

\* x ?? dflt for a number or undefined x: only undefined is replaced
Nullish(x, dflt) ==
    IF x.k = "undef" THEN dflt ELSE x

\* new MechanicalSystem(params): absent numeric parameters are Undef, absent
\* flags are FALSE
MechanicalSystem(params) ==
    [ inertia |-> params.inertia,
      friction |-> params.friction,
      load |-> params.load,
      state |-> [ position |-> IF params.autoEquilibrium
                               THEN Nullish(params.initialPosition, Zero)
                               ELSE OrDefault(params.initialPosition, Zero),
                  velocity |-> Zero ],
      disturbance |-> Zero,
      sensorNoise |-> [ enabled |-> params.noiseEnabled,
                        amplitude |-> OrDefault(params.noiseAmplitude, Q(1, 2)) ],
      systemDelay |-> [ enabled |-> params.delayEnabled,
                        time |-> OrDefault(params.delayTime, Q(1, 10)),
                        buffer |-> <<>> ],
      simulationTime |-> Zero ]

\* the greatest element of a non-empty set of integers
MaxOf(S) ==
    CHOOSE i \in S : \A j \in S : j <= i

\* _applyDelay(input, dt), called with simulationTime already advanced: the
\* new entry is pushed, entries at or before the cutoff are filtered out, and
\* the buffer is searched from its end for the first entry at or before the
\* target time; the input itself is the fallback
applyDelay(p, input) ==
    LET pushed == Append(p.systemDelay.buffer,
                         [value |-> input, time |-> p.simulationTime])
        cutoffTime == Sub(p.simulationTime, Mul(p.systemDelay.time, N(3)))
        kept == SelectSeq(pushed, LAMBDA item : Lt(cutoffTime, item.time))
        targetTime == Sub(p.simulationTime, p.systemDelay.time)
        found == {i \in 1..Len(kept) : Le(kept[i].time, targetTime)}
    IN  [ buffer |-> kept,
          output |-> IF found = {} THEN input ELSE kept[MaxOf(found)].value ]

\* _addSensorNoise(cleanSignal): noise stands for the sum of the two sine
\* terms and the Math.random() term, a value the caller cannot predict
addSensorNoise(p, cleanSignal, noise) ==
    Add(cleanSignal, Mul(noise, p.sensorNoise.amplitude))

\* the force balance and the two Euler steps of update, for the input that is
\* applied
eulerStep(p, actualOutput, dt) ==
    LET frictionForce == Neg(Mul(p.friction, p.state.velocity))
        loadForce == Neg(p.load)
        netForce == Add(Add(Add(actualOutput, p.disturbance), frictionForce),
                        loadForce)
        acceleration == Div(netForce, p.inertia)
        velocity == Add(p.state.velocity, Mul(acceleration, dt))
    IN  [ position |-> Add(p.state.position, Mul(velocity, dt)),
          velocity |-> velocity ]

\* a variant of measureAndReturn that stores the measured position as the
\* position
measureAndStore(p, st, actualOutput, noise) ==
    LET measured == IF p.sensorNoise.enabled
                    THEN addSensorNoise(p, st.position, noise)
                    ELSE st.position
    IN  [ plant |-> [p EXCEPT !.state = [st EXCEPT !.position = measured]],
          snap |-> [ position |-> measured, velocity |-> st.velocity,
                     measuredPosition |-> measured ],
          actualOutput |-> actualOutput ]

\* the end of update: the new state is stored, the measurement is taken and
\* the snapshot {...state, measuredPosition} is returned (actualOutput is
\* kept for the properties)
measureAndReturn(p, st, actualOutput, noise) ==
    [ plant |-> [p EXCEPT !.state = st],
      snap |-> [ position |-> st.position, velocity |-> st.velocity,
                 measuredPosition |->
                     IF p.sensorNoise.enabled
                     THEN addSensorNoise(p, st.position, noise)
                     ELSE st.position ],
      actualOutput |-> actualOutput ]

\* update(controlOutput, dt): there is no test of dt
MechanicalSystem_update(p, controlOutput, dt, noise) ==
    LET t == [p EXCEPT !.simulationTime = Add(@, dt)]
        delayed == IF p.systemDelay.enabled
                   THEN applyDelay(t, controlOutput)
                   ELSE [buffer |-> p.systemDelay.buffer,
                         output |-> controlOutput]
        q == [t EXCEPT !.systemDelay.buffer = delayed.buffer]
    IN  measureAndReturn(q, eulerStep(q, delayed.output, dt), delayed.output,
                         noise)

enableNoise(p, amplitude) ==
    [p EXCEPT !.sensorNoise = [enabled |-> TRUE,
                               amplitude |-> Nullish(amplitude, Q(1, 2))]]

disableNoise(p) ==
    [p EXCEPT !.sensorNoise.enabled = FALSE]

\* enableDelay(delayTime): the buffer is left as it is
enableDelay(p, delayTime) ==
    [p EXCEPT !.systemDelay.enabled = TRUE,
              !.systemDelay.time = Nullish(delayTime, Q(1, 10))]

\* a variant of disableDelay that leaves the buffer as it is
disableDelayKeepingBuffer(p) ==
    [p EXCEPT !.systemDelay.enabled = FALSE]

disableDelay(p) ==
    [p EXCEPT !.systemDelay.enabled = FALSE, !.systemDelay.buffer = <<>>]

MechanicalSystem_setDisturbance(p, value) ==
    [p EXCEPT !.disturbance = value]

\* reset(): velocity, disturbance, buffer and time; the position is not
\* assigned
MechanicalSystem_reset(p) ==
    [p EXCEPT !.state.velocity = Zero,
              !.disturbance = Zero,
              !.systemDelay.buffer = <<>>,
              !.simulationTime = Zero]

\* ------------------------------------------------------------------------
\* PerformanceAnalyzer (src/src/js/performance-analyzer.js)
\* ------------------------------------------------------------------------

\* the JavaScript value null (a metric that is unset)
Null ==
    [k |-> "null", n |-> 0, d |-> 1]

\* the number a value becomes in arithmetic: null is 0
ToNumber(x) ==
    IF x = Null THEN Zero ELSE x

\* the truthiness of a number or null: null, 0 and NaN are falsy
Truthy(x) ==
    ~(x.k \in {"null", "undef", "nan"} \/ (x.k = "fin" /\ x.n = 0))

\* the number of trailing samples the steady-state averages are taken over
\* (this.analysisWindow, 200 in the source)
analysisWindow ==
    3

\* the cap of the history (maxPoints, 1000 in the source)
maxPoints ==
    4

\* the number of samples an episode needs before its metrics are computed
\* (stepData.length < 10 in the source)
minStepSamples ==
    2

NoData ==
    [ time |-> <<>>, setpoint |-> <<>>, processVariable |-> <<>>,
      controlOutput |-> <<>>, error |-> <<>> ]

\* new PerformanceAnalyzer()
PerformanceAnalyzer ==
    [ data |-> NoData,
      metrics |-> [ iae |-> Zero, ise |-> Zero, itae |-> Zero, itse |-> Zero,
                    overshoot |-> Zero, undershoot |-> Zero,
                    settlingTime |-> Null, riseTime |-> Null,
                    peakTime |-> Null,
                    steadyStateError |-> Zero, steadyStateValue |-> Zero,
                    controlEffort |-> Zero, controlVariability |-> Zero,
                    performanceIndex |-> Zero, stabilityMargin |-> Zero,
                    robustness |-> Zero ],
      settlingBand |-> Q(2, 100),
      isStepResponse |-> FALSE,
      stepStartTime |-> Null,
      stepStartValue |-> Null,
      stepEndValue |-> Null ]

Last(s) ==
    s[Len(s)]

\* array.slice(-n)
SliceLast(s, n) ==
    IF Len(s) <= n THEN s ELSE SubSeq(s, Len(s) - n + 1, Len(s))

\* array.reduce((sum, x) => sum + x, 0), from index i on
RECURSIVE SumFrom(_, _)
SumFrom(s, i) ==
    IF i > Len(s) THEN Zero ELSE Add(s[i], SumFrom(s, i + 1))

\* the samples are stored, and the oldest is shifted out beyond maxPoints
store(a, time, setpoint, pv, output) ==
    LET d == [ time |-> Append(a.data.time, time),
               setpoint |-> Append(a.data.setpoint, setpoint),
               processVariable |-> Append(a.data.processVariable, pv),
               controlOutput |-> Append(a.data.controlOutput, output),
               error |-> Append(a.data.error, Sub(setpoint, pv)) ]
    IN  [a EXCEPT !.data = IF Len(d.time) > maxPoints
                           THEN [key \in DOMAIN d |-> Tail(d[key])]
                           ELSE d]

\* a variant of detectStepChange that starts an episode without resetting
\* the metrics of the episode before
detectStepChangeKeepingMetrics(a, currentSetpoint, currentTime) ==
    IF Len(a.data.setpoint) < 2 THEN a
    ELSE IF Lt(Q(1, 10),
               MathAbs(Sub(currentSetpoint,
                           a.data.setpoint[Len(a.data.setpoint) - 1])))
    THEN [a EXCEPT !.isStepResponse = TRUE,
                   !.stepStartTime = currentTime,
                   !.stepStartValue = Last(a.data.processVariable),
                   !.stepEndValue = currentSetpoint]
    ELSE a

\* detectStepChange(currentSetpoint, currentTime)
detectStepChange(a, currentSetpoint, currentTime) ==
    IF Len(a.data.setpoint) < 2 THEN a
    ELSE IF Lt(Q(1, 10),
               MathAbs(Sub(currentSetpoint,
                           a.data.setpoint[Len(a.data.setpoint) - 1])))
    THEN [a EXCEPT !.isStepResponse = TRUE,
                   !.stepStartTime = currentTime,
                   !.stepStartValue = Last(a.data.processVariable),
                   !.stepEndValue = currentSetpoint,
                   !.metrics.overshoot = Zero,
                   !.metrics.undershoot = Zero,
                   !.metrics.settlingTime = Null,
                   !.metrics.riseTime = Null,
                   !.metrics.peakTime = Null]
    ELSE a

\* updateContinuousMetrics(currentTime)
updateContinuousMetrics(a, currentTime) ==
    LET n == Len(a.data.time)
        dt == IF n > 1 THEN Sub(a.data.time[n], a.data.time[n - 1])
              ELSE Q(4, 100)
        currentError == Last(a.data.error)
        currentOutput == Last(a.data.controlOutput)
        squared == Mul(currentError, currentError)
        recentErrors == SliceLast(a.data.error, analysisWindow)
        recentPVs == SliceLast(a.data.processVariable, analysisWindow)
        m == a.metrics
    IN  IF n = 0 THEN a
        ELSE [a EXCEPT !.metrics =
               [m EXCEPT
                  !.iae = Add(@, Mul(MathAbs(currentError), dt)),
                  !.ise = Add(@, Mul(squared, dt)),
                  !.itae = Add(@, Mul(Mul(currentTime, MathAbs(currentError)),
                                      dt)),
                  !.itse = Add(@, Mul(Mul(currentTime, squared), dt)),
                  !.controlEffort = Add(@, Mul(MathAbs(currentOutput), dt)),
                  !.controlVariability =
                      IF n > 1
                      THEN Add(@, MathAbs(Sub(currentOutput,
                                              a.data.controlOutput[n - 1])))
                      ELSE @,
                  !.steadyStateError =
                      IF n >= analysisWindow
                      THEN Div(SumFrom(recentErrors, 1), N(Len(recentErrors)))
                      ELSE @,
                  !.steadyStateValue =
                      IF n >= analysisWindow
                      THEN Div(SumFrom(recentPVs, 1), N(Len(recentPVs)))
                      ELSE @]]

\* getStepResponseData(): the indices of the samples at or after the step
getStepResponseData(a) ==
    IF ~a.isStepResponse \/ a.stepStartTime = Null THEN <<>>
    ELSE SelectSeq([i \in 1..Len(a.data.time) |-> i],
                   LAMBDA i : Ge(a.data.time[i], a.stepStartTime))

\* the forEach of updateStepResponseMetrics: the greatest and the least pv of
\* the episode and the time of the first sample that reached each
RECURSIVE Extremes(_, _, _, _)
Extremes(a, stepData, i, acc) ==
    IF i > Len(stepData) THEN acc
    ELSE LET pv == a.data.processVariable[stepData[i]]
             t == a.data.time[stepData[i]]
             up == IF Lt(acc.maxValue, pv)
                   THEN [acc EXCEPT !.maxValue = pv, !.maxTime = t] ELSE acc
             dn == IF Lt(pv, up.minValue)
                   THEN [up EXCEPT !.minValue = pv, !.minTime = t] ELSE up
         IN  Extremes(a, stepData, i + 1, dn)

\* calculateRiseTime(stepData, stepSize): the loop that looks for the first
\* crossings of 10% and 90%, stopping at the second
RECURSIVE RiseScan(_, _, _, _, _)
RiseScan(a, stepData, stepSize, i, acc) ==
    IF i > Len(stepData) THEN acc
    ELSE LET pv == a.data.processVariable[stepData[i]]
             t == a.data.time[stepData[i]]
             target10 == Add(a.stepStartValue, Mul(Q(1, 10), stepSize))
             target90 == Add(a.stepStartValue, Mul(Q(9, 10), stepSize))
             hit10 == \/ Lt(Zero, stepSize) /\ Ge(pv, target10)
                      \/ Lt(stepSize, Zero) /\ Le(pv, target10)
             hit90 == \/ Lt(Zero, stepSize) /\ Ge(pv, target90)
                      \/ Lt(stepSize, Zero) /\ Le(pv, target90)
             a10 == IF acc.time10 = Null /\ hit10
                    THEN [acc EXCEPT !.time10 = Sub(t, a.stepStartTime)]
                    ELSE acc
         IN  IF a10.time90 = Null /\ hit90
             THEN [a10 EXCEPT !.time90 = Sub(t, a.stepStartTime)]
             ELSE RiseScan(a, stepData, stepSize, i + 1, a10)

calculateRiseTime(a, stepData, stepSize) ==
    LET r == RiseScan(a, stepData, stepSize, 1,
                      [time10 |-> Null, time90 |-> Null])
    IN  IF r.time10 # Null /\ r.time90 # Null
        THEN [a EXCEPT !.metrics.riseTime = Sub(r.time90, r.time10)]
        ELSE a

\* calculateSettlingTime(stepData): the last sample outside the band
calculateSettlingTime(a, stepData) ==
    LET band == Mul(a.stepEndValue, a.settlingBand)
        upperBound == Add(a.stepEndValue, band)
        lowerBound == Sub(a.stepEndValue, band)
        outside == {i \in 1..Len(stepData) :
                       LET pv == a.data.processVariable[stepData[i]]
                       IN  Lt(upperBound, pv) \/ Lt(pv, lowerBound)}
    IN  [a EXCEPT !.metrics.settlingTime =
           IF outside = {} THEN Null
           ELSE Sub(a.data.time[stepData[MaxOf(outside)]], a.stepStartTime)]

\* updateStepResponseMetrics()
updateStepResponseMetrics(a) ==
    LET stepData == getStepResponseData(a)
        stepSize == Sub(a.stepEndValue, a.stepStartValue)
        e == Extremes(a, stepData, 1,
                      [maxValue |-> NInf, minValue |-> PInf,
                       maxTime |-> Null, minTime |-> Null])
        peaked ==
            IF Lt(Zero, stepSize)
            THEN [a EXCEPT
                    !.metrics.overshoot =
                        MathMax(Zero,
                                Mul(Div(Sub(e.maxValue, a.stepEndValue),
                                        stepSize), N(100))),
                    !.metrics.peakTime =
                        Sub(ToNumber(e.maxTime), a.stepStartTime)]
            ELSE [a EXCEPT
                    !.metrics.undershoot =
                        MathMax(Zero,
                                Mul(Div(Sub(a.stepEndValue, e.minValue),
                                        MathAbs(stepSize)), N(100))),
                    !.metrics.peakTime =
                        Sub(ToNumber(e.minTime), a.stepStartTime)]
    IN  IF ~a.isStepResponse \/ a.stepStartTime = Null THEN a
        ELSE IF Len(stepData) < minStepSamples THEN a
        ELSE IF Lt(MathAbs(stepSize), Q(1, 10)) THEN a
        ELSE calculateSettlingTime(
                 calculateRiseTime(peaked, stepData, stepSize), stepData)

\* the score of calculatePerformanceIndex before it is clamped
score(m) ==
    LET s1 == IF Lt(N(20), m.overshoot)
              THEN Sub(N(100), Mul(Sub(m.overshoot, N(20)), N(2)))
              ELSE N(100)
        s2 == Sub(s1, Mul(MathAbs(m.steadyStateError), N(10)))
        s3 == IF Truthy(m.settlingTime) /\ Lt(N(10), m.settlingTime)
              THEN Sub(s2, Mul(Sub(m.settlingTime, N(10)), N(2)))
              ELSE s2
    IN  IF Lt(N(50), m.controlVariability)
        THEN Sub(s3, Mul(Sub(m.controlVariability, N(50)), Q(1, 2)))
        ELSE s3

\* calculatePerformanceIndex()
calculatePerformanceIndex(a) ==
    [a EXCEPT !.metrics.performanceIndex =
                  MathMax(Zero, MathMin(N(100), score(a.metrics)))]

\* the analyzer as update leaves it after detectStepChange
PerformanceAnalyzer_detected(a, time, setpoint, pv, output) ==
    detectStepChange(store(a, time, setpoint, pv, output), setpoint, time)

\* update(time, setpoint, pv, output)
PerformanceAnalyzer_update(a, time, setpoint, pv, output) ==
    LET d == PerformanceAnalyzer_detected(a, time, setpoint, pv, output)
        c == updateContinuousMetrics(d, time)
    IN  calculatePerformanceIndex(
            IF c.isStepResponse THEN updateStepResponseMetrics(c) ELSE c)

\* reset(): the data is emptied, every metric that holds a number becomes 0
\* and every other metric null
PerformanceAnalyzer_reset(a) ==
    [a EXCEPT !.data = NoData,
              !.metrics = [key \in DOMAIN a.metrics |->
                             IF a.metrics[key] = Null THEN Null ELSE Zero],
              !.isStepResponse = FALSE,
              !.stepStartTime = Null,
              !.stepStartValue = Null,
              !.stepEndValue = Null]

\* ------------------------------------------------------------------------
\* The controller driven by its callers
\* ------------------------------------------------------------------------

\* pid:    the controller object
\* call:   the last call made on it (its name, arguments and what the call
\*         observed), "new" after construction
\* ret:    what the last call returned (Undef for a call returning nothing)
\* nCalls: the number of calls made
\* hold:   the arguments and the output of the last effective automatic
\*         update, while every update since repeated its arguments and
\*         nothing but mode switches and getters was called since
\* obs:    the last snapshot each getter returned and what was called since
\* given:  the arguments the constructor of pid was called with
\* twin:   from the last reset() on, a freshly constructed controller given
\*         the configuration pid had at that reset and fed the same calls
VARIABLES pid, call, ret, nCalls, hold, obs, twin, given

\* plant:  the mechanical plant object
\* quiet:  a plant constructed with the same parameters and given the same
\*         calls, except that its noise is never turned on
\* built:  the plant as it was constructed
\* pcall:  the last call made on the plant (its name, its arguments, the
\*         plant before it, what it returned and the input it applied)
\* fed:    the control outputs passed to update with the delay enabled since
\*         the last disableDelay()
\* dropped: the values the buffer held when disableDelay() was last called
\* nPlant: the number of calls made on the plant
VARIABLES plant, quiet, built, pcall, fed, dropped, nPlant

\* an:       the analyzer object
\* ancall:   the last call made on the analyzer (its name, its arguments, the
\*           analyzer before it and the analyzer as the call left it after
\*           detectStepChange)
\* clock:    the time passed to the last update since the last reset
\* nSamples: the number of calls made on the analyzer
VARIABLES an, ancall, clock, nSamples

\* sim:   the driver: the fields of SimulationApp, its five plants, its
\*        controller, its analyzer, and whether the last handler ended with a
\*        TypeError
\* acall: the last handler of the driver that ran (its name and the driver
\*        before it)
\* nHandled: the number of handlers that ran
\* now:   the timestamp of the last animation frame, in milliseconds
\* ticks: the calls the callbacks of the last animation frame made on the
\*        plant, the controller and the analyzer, in the order they made
\*        them
VARIABLES sim, acall, nHandled, now, ticks

\* tuner:    the driver of the auto-tuner: the fields of SimulationApp its
\*           auto-tuner reads and writes
\* tcall:    the last handler of that driver that ran (its name and the driver
\*           before it)
\* response: the response the plant follows
\* phase:    the number of iterations since the plant was reset
\* nTicks:   the number of iterations of the loop that ran
VARIABLES tuner, tcall, response, phase, nTicks

\* es:    the EducationalScenarios object, the callbacks setTimeout holds for
\*        it and the callbacks it has invoked
\* clock: Date.now(), in milliseconds
VARIABLES es, clock_ms

scenVars ==
    <<es, clock_ms>>

pidVars ==
    <<pid, call, ret, nCalls, hold, obs, twin, given>>

appVars ==
    <<sim, acall, nHandled, now, ticks>>

tunerVars ==
    <<tuner, tcall, response, phase, nTicks>>

anVars ==
    <<an, ancall, clock, nSamples>>

plantVars ==
    <<plant, quiet, built, pcall, fed, dropped, nPlant>>

vars ==
    <<pidVars, plantVars, anVars, appVars, tunerVars, scenVars>>

NoPlantCall ==
    [ op |-> "new", input |-> Undef, dt |-> Undef, before |-> Undef,
      snap |-> Undef, applied |-> Undef ]

\* no plant is being driven
PlantIdle ==
    /\ plant = Undef
    /\ quiet = Undef
    /\ built = Undef
    /\ pcall = NoPlantCall
    /\ fed = {}
    /\ dropped = {}
    /\ nPlant = 0

NoAnalyzerCall ==
    [ op |-> "new", time |-> Undef, setpoint |-> Undef, pv |-> Undef,
      output |-> Undef, before |-> Undef, detected |-> Undef ]

\* no analyzer is being driven
AnalyzerIdle ==
    /\ an = Undef
    /\ ancall = NoAnalyzerCall
    /\ clock = Zero
    /\ nSamples = 0

NoAppCall ==
    [ op |-> "new", before |-> Undef ]

\* no driver is running
AppIdle ==
    /\ sim = Undef
    /\ acall = NoAppCall
    /\ nHandled = 0
    /\ now = Zero
    /\ ticks = <<>>

NoTunerCall ==
    [ op |-> "new", before |-> Undef ]

\* no auto-tuner is being driven
TunerIdle ==
    /\ tuner = Undef
    /\ tcall = NoTunerCall
    /\ response = 0
    /\ phase = 0
    /\ nTicks = 0

\* no scenario system is being driven
ScenarioIdle ==
    /\ es = Undef
    /\ clock_ms = 0

\* what a call on the controller leaves alone
OutsidePid ==
    <<plantVars, anVars, appVars, tunerVars, scenVars>>

\* what a call on the plant leaves alone
OutsidePlant ==
    <<pidVars, anVars, appVars, tunerVars, scenVars>>

\* what a call on the analyzer leaves alone
OutsideAnalyzer ==
    <<pidVars, plantVars, appVars, tunerVars, scenVars>>

\* what a handler of the driver leaves alone
OutsideApp ==
    <<pidVars, plantVars, anVars, tunerVars, scenVars>>

\* what a handler of the auto-tuner's driver leaves alone
OutsideTuner ==
    <<pidVars, plantVars, anVars, appVars, scenVars>>

\* what a call on the scenario system leaves alone
OutsideScenario ==
    <<pidVars, plantVars, anVars, appVars, tunerVars>>

\* the number of calls of a run
MaxCalls ==
    4

NoOptions ==
    [ outputMin |-> Undef, outputMax |-> Undef, derivativeFilter |-> Undef,
      setpointWeightP |-> Undef, setpointWeightD |-> Undef,
      integralMode |-> "undefined", antiWindupMethod |-> "undefined" ]

\* the constructor calls of the runs: <<Kp, Ki, Kd, options>>
ConstructorInputs ==
    { <<N(1), N(0), N(0), NoOptions>>,
      <<N(2), N(1), N(1),
        [NoOptions EXCEPT !.outputMin = N(-10), !.outputMax = N(10),
                          !.derivativeFilter = Q(1, 2),
                          !.antiWindupMethod = "back-calculation"]>>,
      <<N(1), N(1), N(0),
        [NoOptions EXCEPT !.outputMin = N(0), !.outputMax = N(10),
                          !.setpointWeightD = N(1),
                          !.integralMode = "conditional"]>> }

\* <<setpoint, processVariable, deltaTime>>
UpdateInputs ==
    { <<N(20), N(0), N(1)>>, <<N(0), N(5), Q(1, 2)>>,
      <<N(20), N(0), N(0)>>, <<N(20), N(0), N(-1)>> }

\* <<Kp, Ki, Kd>>
GainInputs ==
    { <<N(2), N(2), N(1)>>, <<N(1), N(0), N(0)>> }

\* <<min, max>>
LimitInputs ==
    { <<N(-10), N(10)>>, <<N(10), N(-10)>> }

\* <<weightP, weightD>>
WeightInputs ==
    { <<Q(1, 2), N(1)>> }

FilterInputs ==
    { N(1) }

\* <<isManual, manualOutput>>
ManualInputs ==
    { <<TRUE, Undef>>, <<TRUE, N(5)>>, <<FALSE, Undef>> }

NoCall ==
    [ op |-> "new", sp |-> Zero, pv |-> Zero, dt |-> Zero,
      manual |-> FALSE, sat |-> FALSE, tr |-> "none", first |-> "none",
      auto |-> FALSE, lastAuto |-> Zero, same |-> FALSE,
      had |-> FALSE, prev |-> Undef, upd |-> FALSE, mut |-> FALSE ]

NoHold ==
    [valid |-> FALSE, sp |-> Zero, pv |-> Zero, out |-> Zero]

NoTwin ==
    [on |-> FALSE, dirty |-> FALSE, pid |-> Undef, ret |-> Undef]

\* obs after a call that is an update (isUpdate) or another mutating call
Touched(isUpdate) ==
    [obs EXCEPT !.termsUpd = @ \/ isUpdate, !.configUpd = @ \/ isUpdate,
                !.termsMut = TRUE, !.configMut = TRUE]

\* no controller is being driven
PidIdle ==
    /\ pid = Undef
    /\ call = NoCall
    /\ ret = Undef
    /\ nCalls = 0
    /\ hold = NoHold
    /\ obs = Undef
    /\ twin = NoTwin
    /\ given = Undef

Init ==
    /\ \E c \in ConstructorInputs :
           /\ pid = AdvancedPIDController(c[1], c[2], c[3], c[4])
           /\ given = c
    /\ call = NoCall
    /\ ret = Undef
    /\ nCalls = 0
    /\ hold = NoHold
    /\ obs = [ terms |-> Undef, config |-> Undef,
               termsUpd |-> FALSE, termsMut |-> FALSE,
               configUpd |-> FALSE, configMut |-> FALSE ]
    /\ twin = NoTwin
    /\ PlantIdle
    /\ AnalyzerIdle
    /\ AppIdle
    /\ TunerIdle
    /\ ScenarioIdle

\* a caller calls pid.update(setpoint, processVariable, deltaTime)
Update ==
    /\ nCalls < MaxCalls
    /\ \E u \in UpdateInputs :
       \E r \in {update(pid, u[1], u[2], u[3])} :
       \E t \in {IF twin.on THEN update(twin.pid, u[1], u[2], u[3])
                  ELSE [pid |-> Undef, ret |-> Undef]} :
         LET effective == ~Le(u[3], Zero)
             same == hold.valid /\ hold.sp = u[1] /\ hold.pv = u[2]
         IN  /\ pid' = r.pid
             /\ ret' = r.ret
             /\ call' = [NoCall EXCEPT
                           !.op = "update", !.sp = u[1], !.pv = u[2],
                           !.dt = u[3], !.manual = pid.state.isManual,
                           !.sat = r.sat,
                           !.first = IF effective /\ call.op = "setManualMode"
                                     THEN call.tr ELSE "none",
                           !.auto = hold.valid,
                           !.lastAuto = hold.out,
                           !.same = same]
             /\ hold' = IF ~effective THEN hold
                        ELSE IF pid.state.isManual
                        THEN (IF same THEN hold ELSE NoHold)
                        ELSE [valid |-> TRUE, sp |-> u[1], pv |-> u[2],
                              out |-> r.ret]
             /\ twin' = [twin EXCEPT !.pid = t.pid, !.ret = t.ret]
    /\ obs' = Touched(TRUE)
    /\ nCalls' = nCalls + 1
    /\ UNCHANGED <<given, OutsidePid>>

\* the bookkeeping of a call that returns nothing and only sets configuration
\* or state: newPid is pid after the call, newTwin the twin's pid after it
Called(op, tr, newPid, newTwin, keepHold) ==
    /\ nCalls < MaxCalls
    /\ pid' = newPid
    /\ ret' = Undef
    /\ call' = [NoCall EXCEPT !.op = op, !.tr = tr]
    /\ hold' = IF keepHold THEN hold ELSE NoHold
    /\ obs' = Touched(FALSE)
    /\ twin' = IF twin.on THEN [twin EXCEPT !.pid = newTwin, !.ret = Undef]
               ELSE twin
    /\ nCalls' = nCalls + 1
    /\ UNCHANGED <<given, OutsidePid>>

SetGains ==
    \E g \in GainInputs :
        Called("setGains", "none", setGains(pid, g[1], g[2], g[3]),
               IF twin.on THEN setGains(twin.pid, g[1], g[2], g[3]) ELSE Undef,
               FALSE)

SetOutputLimits ==
    \E l \in LimitInputs :
        Called("setOutputLimits", "none", setOutputLimits(pid, l[1], l[2]),
               IF twin.on THEN setOutputLimits(twin.pid, l[1], l[2]) ELSE Undef,
               FALSE)

SetSetpointWeighting ==
    \E w \in WeightInputs :
        Called("setSetpointWeighting", "none",
               setSetpointWeighting(pid, w[1], w[2]),
               IF twin.on THEN setSetpointWeighting(twin.pid, w[1], w[2])
               ELSE Undef,
               FALSE)

SetDerivativeFilter ==
    \E a \in FilterInputs :
        Called("setDerivativeFilter", "none", setDerivativeFilter(pid, a),
               IF twin.on THEN setDerivativeFilter(twin.pid, a) ELSE Undef,
               FALSE)

SetManualMode ==
    \E m \in ManualInputs :
        Called("setManualMode",
               IF m[1] /\ ~pid.state.isManual THEN "toManual"
               ELSE IF ~m[1] /\ pid.state.isManual THEN "toAuto"
               ELSE "none",
               setManualMode(pid, m[1], m[2]),
               IF twin.on THEN setManualMode(twin.pid, m[1], m[2]) ELSE Undef,
               TRUE)

\* the freshly constructed controller with the configuration of p: the
\* constructor, then the setters for what p's configuration holds
FreshLike(p) ==
    setDerivativeFilter(
        setSetpointWeighting(
            setOutputLimits(
                AdvancedPIDController(p.Kp, p.Ki, p.Kd,
                    [NoOptions EXCEPT
                       !.integralMode = p.config.integralMode,
                       !.antiWindupMethod = p.config.antiWindupMethod]),
                p.config.outputMin, p.config.outputMax),
            p.config.setpointWeightP, p.config.setpointWeightD),
        p.config.derivativeFilter)

Reset ==
    /\ nCalls < MaxCalls
    /\ pid' = reset(pid)
    /\ ret' = Undef
    /\ call' = [NoCall EXCEPT !.op = "reset"]
    /\ hold' = NoHold
    /\ obs' = Touched(FALSE)
    /\ twin' = [ on |-> TRUE,
                 dirty |-> pid.state # reset(pid).state
                           /\ pid.terms # reset(pid).terms,
                 pid |-> FreshLike(pid), ret |-> Undef ]
    /\ nCalls' = nCalls + 1
    /\ UNCHANGED <<given, OutsidePid>>

GetTerms ==
    /\ nCalls < MaxCalls
    /\ LET r == getTerms(pid)
       IN  /\ pid' = r.pid
           /\ ret' = r.snap
           /\ call' = [NoCall EXCEPT
                         !.op = "getTerms", !.had = obs.terms # Undef,
                         !.prev = obs.terms, !.upd = obs.termsUpd,
                         !.mut = obs.termsMut]
           /\ obs' = [obs EXCEPT !.terms = r.snap, !.termsUpd = FALSE,
                                 !.termsMut = FALSE]
    /\ twin' = IF twin.on
               THEN [twin EXCEPT !.pid = getTerms(twin.pid).pid,
                                 !.ret = getTerms(twin.pid).snap]
               ELSE twin
    /\ UNCHANGED hold
    /\ nCalls' = nCalls + 1
    /\ UNCHANGED <<given, OutsidePid>>

GetConfiguration ==
    /\ nCalls < MaxCalls
    /\ LET r == getConfiguration(pid)
       IN  /\ pid' = r.pid
           /\ ret' = r.snap
           /\ call' = [NoCall EXCEPT
                         !.op = "getConfiguration", !.had = obs.config # Undef,
                         !.prev = obs.config, !.upd = obs.configUpd,
                         !.mut = obs.configMut]
           /\ obs' = [obs EXCEPT !.config = r.snap, !.configUpd = FALSE,
                                 !.configMut = FALSE]
    /\ twin' = IF twin.on
               THEN [twin EXCEPT !.pid = getConfiguration(twin.pid).pid,
                                 !.ret = getConfiguration(twin.pid).snap]
               ELSE twin
    /\ UNCHANGED hold
    /\ nCalls' = nCalls + 1
    /\ UNCHANGED <<given, OutsidePid>>

Next ==
    \/ Update
    \/ SetGains
    \/ SetOutputLimits
    \/ SetSetpointWeighting
    \/ SetDerivativeFilter
    \/ SetManualMode
    \/ Reset
    \/ GetTerms
    \/ GetConfiguration

Spec ==
    Init /\ [][Next]_vars

\* ------------------------------------------------------------------------
\* The mechanical plant driven by its callers
\* ------------------------------------------------------------------------

\* the number of calls made on the plant in a run
MaxPlantCalls ==
    4

NoParams ==
    [ inertia |-> Undef, friction |-> Undef, load |-> Undef,
      noiseEnabled |-> FALSE, noiseAmplitude |-> Undef,
      delayEnabled |-> FALSE, delayTime |-> Undef,
      autoEquilibrium |-> FALSE, initialPosition |-> Undef ]

\* the parameters of main.js, and a plant constructed with delay and noise on
\* and away from the origin
PlantInputs ==
    { [NoParams EXCEPT !.inertia = N(1), !.friction = Q(1, 5), !.load = N(20)],
      [NoParams EXCEPT !.inertia = N(2), !.friction = N(1), !.load = N(0),
                       !.noiseEnabled = TRUE, !.noiseAmplitude = N(1),
                       !.delayEnabled = TRUE, !.delayTime = N(1),
                       !.initialPosition = N(3)] }

\* <<controlOutput, dt>> of an update: steps forward, a zero step and a step
\* backward
PlantUpdateInputs ==
    { <<N(5), N(1)>>, <<N(7), N(2)>>, <<N(5), N(0)>>, <<N(9), N(-1)>> }

\* what _addSensorNoise may add before scaling: the sines and Math.random()
\* give a value between -0.75 and 0.75
NoiseValues ==
    { Q(-1, 2), Q(1, 4) }

NoiseAmplitudeInputs ==
    { N(1), Undef }

DelayTimeInputs ==
    { N(1) }

DisturbanceInputs ==
    { N(-30) }

\* the plant as a caller that never turns the noise on would have it
Quiet(p) ==
    [p EXCEPT !.sensorNoise = [enabled |-> FALSE, amplitude |-> Q(1, 2)]]

InitPlant ==
    /\ \E params \in PlantInputs :
         /\ plant = MechanicalSystem(params)
         /\ quiet = Quiet(MechanicalSystem(params))
         /\ built = MechanicalSystem(params)
    /\ pcall = NoPlantCall
    /\ fed = {}
    /\ dropped = {}
    /\ nPlant = 0
    /\ PidIdle
    /\ AnalyzerIdle
    /\ AppIdle
    /\ TunerIdle
    /\ ScenarioIdle

\* a caller calls plant.update(controlOutput, dt)
PlantUpdate ==
    /\ nPlant < MaxPlantCalls
    /\ \E u \in PlantUpdateInputs :
       \E noise \in (IF plant.sensorNoise.enabled THEN NoiseValues ELSE {Zero}) :
       \E r \in {MechanicalSystem_update(plant, u[1], u[2], noise)} :
         /\ plant' = r.plant
         /\ quiet' = MechanicalSystem_update(quiet, u[1], u[2], Zero).plant
         /\ pcall' = [ op |-> "update", input |-> u[1], dt |-> u[2],
                       before |-> plant, snap |-> r.snap,
                       applied |-> r.actualOutput ]
         /\ fed' = IF plant.systemDelay.enabled THEN fed \cup {u[1]} ELSE fed
    /\ nPlant' = nPlant + 1
    /\ UNCHANGED <<built, dropped, OutsidePlant>>

\* the bookkeeping of a call on the plant that returns nothing
PlantCalled(op, newPlant, newQuiet, newFed, newDropped) ==
    /\ nPlant < MaxPlantCalls
    /\ plant' = newPlant
    /\ quiet' = newQuiet
    /\ pcall' = [NoPlantCall EXCEPT !.op = op, !.before = plant]
    /\ fed' = newFed
    /\ dropped' = newDropped
    /\ nPlant' = nPlant + 1
    /\ UNCHANGED <<built, OutsidePlant>>

EnableNoise ==
    \E a \in NoiseAmplitudeInputs :
        PlantCalled("enableNoise", enableNoise(plant, a), quiet, fed, dropped)

DisableNoise ==
    PlantCalled("disableNoise", disableNoise(plant), quiet, fed, dropped)

EnableDelay ==
    \E t \in DelayTimeInputs :
        PlantCalled("enableDelay", enableDelay(plant, t), enableDelay(quiet, t),
                    fed, dropped)

DisableDelay ==
    PlantCalled("disableDelay", disableDelay(plant), disableDelay(quiet), {},
                {plant.systemDelay.buffer[i].value :
                    i \in 1..Len(plant.systemDelay.buffer)})

SetDisturbance ==
    \E v \in DisturbanceInputs :
        PlantCalled("setDisturbance", MechanicalSystem_setDisturbance(plant, v),
                    MechanicalSystem_setDisturbance(quiet, v), fed, dropped)

PlantReset ==
    PlantCalled("reset", MechanicalSystem_reset(plant),
                MechanicalSystem_reset(quiet), fed, dropped)

NextPlant ==
    \/ PlantUpdate
    \/ EnableNoise
    \/ DisableNoise
    \/ EnableDelay
    \/ DisableDelay
    \/ SetDisturbance
    \/ PlantReset

SpecPlant ==
    InitPlant /\ [][NextPlant]_vars

\* ------------------------------------------------------------------------
\* The analyzer driven by its callers
\* ------------------------------------------------------------------------

\* the number of calls made on the analyzer in a run
MaxSamples ==
    5

\* <<time since the sample before, setpoint, pv, output>> of an update: a
\* base line, a step up, an overshoot long after it, a setpoint moved by 0.1
\* at the same time stamp, a measurement that is NaN, a step down, and a
\* negative setpoint with a measurement 1% away from it
AnalyzerInputs ==
    { <<N(1), N(10), N(0), N(0)>>,
      <<N(1), N(20), N(0), N(60)>>,
      <<N(11), N(20), N(25), N(0)>>,
      <<N(0), Q(201, 10), N(20), N(0)>>,
      <<N(1), N(10), NaN, N(0)>>,
      <<N(1), N(0), N(5), N(0)>>,
      <<N(1), N(-20), Q(-99, 5), N(0)>> }

InitAnalyzer ==
    /\ an = PerformanceAnalyzer
    /\ ancall = NoAnalyzerCall
    /\ clock = Zero
    /\ nSamples = 0
    /\ PidIdle
    /\ PlantIdle
    /\ AppIdle
    /\ TunerIdle
    /\ ScenarioIdle

\* a caller calls analyzer.update(time, setpoint, pv, output)
AnalyzerUpdate ==
    /\ nSamples < MaxSamples
    /\ \E u \in AnalyzerInputs :
       \E t \in {Add(clock, u[1])} :
         /\ an' = PerformanceAnalyzer_update(an, t, u[2], u[3], u[4])
         /\ ancall' = [ op |-> "update", time |-> t, setpoint |-> u[2],
                        pv |-> u[3], output |-> u[4], before |-> an,
                        detected |->
                            PerformanceAnalyzer_detected(an, t, u[2], u[3],
                                                         u[4]) ]
         /\ clock' = t
    /\ nSamples' = nSamples + 1
    /\ UNCHANGED OutsideAnalyzer

\* a caller calls analyzer.reset()
AnalyzerReset ==
    /\ nSamples < MaxSamples
    /\ an' = PerformanceAnalyzer_reset(an)
    /\ ancall' = [NoAnalyzerCall EXCEPT !.op = "reset", !.before = an]
    /\ clock' = Zero
    /\ nSamples' = nSamples + 1
    /\ UNCHANGED OutsideAnalyzer

NextAnalyzer ==
    \/ AnalyzerUpdate
    \/ AnalyzerReset

SpecAnalyzer ==
    InitAnalyzer /\ [][NextAnalyzer]_vars

\* ------------------------------------------------------------------------
\* SimulationApp and the plant variants it drives (src/src/js/main.js,
\* src/src/js/system-analyser.js)
\* ------------------------------------------------------------------------

\* the JavaScript values true and false where a field holds either a
\* boolean or a number
JsTrue ==
    [k |-> "true", n |-> 1, d |-> 1]

JsFalse ==
    [k |-> "false", n |-> 0, d |-> 1]

\* the keys of this.plants
PlantTypes ==
    {"mechanical", "temperature", "level", "motor", "pressure"}

\* the methods each plant class defines
Methods(plantType) ==
    IF plantType = "mechanical"
    THEN {"update", "enableNoise", "disableNoise", "enableDelay",
          "disableDelay", "setDisturbance", "reset"}
    ELSE {"update", "setDisturbance", "reset"}

\* this.disturbances as the constructor and reset() of each class of
\* system-analyser.js set it
InitialDisturbances(plantType) ==
    CASE plantType = "temperature" ->
             [ambientTempChange |-> Zero, doorOpening |-> JsFalse]
      [] plantType = "level" ->
             [inletFlowVariation |-> Zero, leakage |-> Zero]
      [] plantType = "motor" ->
             [loadTorque |-> Zero, frictionVariation |-> N(1)]
      [] plantType = "pressure" ->
             [outletFlowVariation |-> N(1), leakage |-> Zero,
              temperatureChange |-> Zero]

\* the field setDisturbance(type, value) of each class assigns, "none" for a
\* type it does not know
DisturbanceField(plantType, type) ==
    CASE plantType = "temperature" /\ type = "ambient" -> "ambientTempChange"
      [] plantType = "temperature" /\ type = "door" -> "doorOpening"
      [] plantType = "level" /\ type = "inlet" -> "inletFlowVariation"
      [] plantType = "level" /\ type = "leak" -> "leakage"
      [] plantType = "motor" /\ type = "load" -> "loadTorque"
      [] plantType = "motor" /\ type = "friction" -> "frictionVariation"
      [] plantType = "pressure" /\ type = "outlet" -> "outletFlowVariation"
      [] plantType = "pressure" /\ type = "leak" -> "leakage"
      [] plantType = "pressure" /\ type = "temperature" -> "temperatureChange"
      [] OTHER -> "none"

\* a plant of system-analyser.js: its disturbances and its clock (its
\* physical state is not part of this model); it has no sensorNoise and no
\* systemDelay field
IndustrialPlant(plantType) ==
    [ disturbances |-> InitialDisturbances(plantType),
      simulationTime |-> Zero ]

IndustrialPlant_setDisturbance(plantType, p, type, value) ==
    IF DisturbanceField(plantType, type) = "none" THEN p
    ELSE [p EXCEPT !.disturbances[DisturbanceField(plantType, type)] = value]

IndustrialPlant_reset(plantType, p) ==
    [p EXCEPT !.disturbances = InitialDisturbances(plantType),
              !.simulationTime = Zero]

\* this.plantConfigs: the setpoint and the disturbance of each plant
plantConfigs(plantType) ==
    CASE plantType = "mechanical" ->
             [setpoint |-> N(80), type |-> "", value |-> N(-30)]
      [] plantType = "temperature" ->
             [setpoint |-> N(60), type |-> "door", value |-> JsTrue]
      [] plantType = "level" ->
             [setpoint |-> Q(5, 2), type |-> "leak", value |-> Q(1, 100)]
      [] plantType = "motor" ->
             [setpoint |-> N(1500), type |-> "load", value |-> Q(1, 5)]
      [] plantType = "pressure" ->
             [setpoint |-> N(200), type |-> "leak", value |-> Q(1, 1000)]

\* the state of the driver: s.app the fields of SimulationApp (labels is
\* chart.data.labels.length), s.plants the five plants, s.pid the
\* controller, s.an the analyzer, s.scheduled the callbacks pending in
\* requestAnimationFrame, s.raised whether the handler ended with a
\* TypeError
thePlant(s) ==
    s.plants[s.app.currentPlantType]

\* plant.reset() of the selected plant
resetPlant(s) ==
    [s EXCEPT !.plants[s.app.currentPlantType] =
        IF s.app.currentPlantType = "mechanical"
        THEN MechanicalSystem_reset(@)
        ELSE IndustrialPlant_reset(s.app.currentPlantType, @)]

\* plant.setDisturbance(...) as toggleDisturbance calls it with value
setPlantDisturbance(s, value) ==
    LET t == s.app.currentPlantType
    IN  [s EXCEPT !.plants[t] =
           IF plantConfigs(t).type = ""
           THEN MechanicalSystem_setDisturbance(@, value)
           ELSE IndustrialPlant_setDisturbance(t, @, plantConfigs(t).type,
                                               value)]

\* a toggleDisturbance() that flips the flag and the button and never calls
\* the plant
toggleDisturbanceFlagOnly(s) ==
    [s EXCEPT !.app.isDisturbanceActive = ~s.app.isDisturbanceActive,
              !.app.disturbanceButton = ~s.app.isDisturbanceActive]

\* toggleDisturbance()
toggleDisturbance(s) ==
    LET active == ~s.app.isDisturbanceActive
        flagged == [s EXCEPT !.app.isDisturbanceActive = active,
                             !.app.disturbanceButton = active]
    IN  setPlantDisturbance(flagged,
            IF active THEN plantConfigs(s.app.currentPlantType).value
            ELSE Zero)

\* toggleNoise(forceState, amplitude): forceState is "undefined", "true" or
\* "false", slider the value of the noise slider
toggleNoise(s, forceState, amplitude, slider) ==
    LET t == s.app.currentPlantType
        currentState == IF "sensorNoise" \in DOMAIN thePlant(s)
                        THEN thePlant(s).sensorNoise.enabled ELSE FALSE
        newState == IF forceState # "undefined" THEN forceState = "true"
                    ELSE ~currentState
    IN  IF newState /\ "enableNoise" \notin Methods(t)
        THEN [s EXCEPT !.raised = TRUE]
        ELSE IF ~newState /\ "disableNoise" \notin Methods(t)
        THEN [s EXCEPT !.raised = TRUE]
        ELSE [s EXCEPT !.plants[t] =
                           IF newState
                           THEN enableNoise(@, Nullish(amplitude, slider))
                           ELSE disableNoise(@),
                       !.app.noiseButton = newState]

\* toggleDelay(forceState, delayTime): slider is the value of the delay
\* slider
toggleDelay(s, forceState, delayTime, slider) ==
    LET t == s.app.currentPlantType
        currentState == IF "systemDelay" \in DOMAIN thePlant(s)
                        THEN thePlant(s).systemDelay.enabled ELSE FALSE
        newState == IF forceState # "undefined" THEN forceState = "true"
                    ELSE ~currentState
    IN  IF newState /\ "enableDelay" \notin Methods(t)
        THEN [s EXCEPT !.raised = TRUE]
        ELSE IF ~newState /\ "disableDelay" \notin Methods(t)
        THEN [s EXCEPT !.raised = TRUE]
        ELSE [s EXCEPT !.plants[t] =
                           IF newState
                           THEN enableDelay(@, Nullish(delayTime, slider))
                           ELSE disableDelay(@),
                       !.app.delayButton = newState]

\* start(): s.scheduled is the number of simulationLoop callbacks
\* requestAnimationFrame holds for the next frame
start(s) ==
    IF s.app.isRunning THEN s
    ELSE [s EXCEPT !.app.isRunning = TRUE,
                   !.app.lastFrameTime = Null,
                   !.scheduled = @ + 1]

\* stop(): the callback that is pending stays pending
stop(s) ==
    [s EXCEPT !.app.isRunning = FALSE]

\* resetSimulation(): stop, the three resets, the disturbance, the noise and
\* the delay turned off where they are on, the chart emptied, start
resetSimulation(s) ==
    LET r == resetPlant([stop(s) EXCEPT !.pid = reset(@),
                                        !.an = PerformanceAnalyzer_reset(@)])
        d == IF r.app.isDisturbanceActive THEN toggleDisturbance(r) ELSE r
        n == IF "sensorNoise" \in DOMAIN thePlant(d)
                /\ thePlant(d).sensorNoise.enabled
             THEN toggleNoise(d, "false", Undef, Undef) ELSE d
        y == IF "systemDelay" \in DOMAIN thePlant(n)
                /\ thePlant(n).systemDelay.enabled
             THEN toggleDelay(n, "false", Undef, Undef) ELSE n
    IN  start([y EXCEPT !.app.labels = 0])

\* switchPlant(plantType)
switchPlant(s, plantType) ==
    IF plantType \notin PlantTypes THEN s
    ELSE resetSimulation(
             [stop(s) EXCEPT
                       !.app.currentPlantType = plantType,
                       !.app.setpoint = plantConfigs(plantType).setpoint])

\* this.presets: the gains of a preset, Undef for a name it does not have
presets(presetName) ==
    CASE presetName = "p_only" -> [kp |-> N(1), ki |-> Zero, kd |-> Zero]
      [] presetName = "pi" -> [kp |-> Q(6, 5), ki |-> Q(2, 5), kd |-> Zero]
      [] presetName = "pid_damped" ->
             [kp |-> Q(3, 2), ki |-> Q(1, 2), kd |-> Q(7, 2)]
      [] presetName = "pid_oscillatory" ->
             [kp |-> N(8), ki |-> N(2), kd |-> N(1)]
      [] presetName = "noisy_system" ->
             [kp |-> Q(4, 5), ki |-> Q(3, 10), kd |-> N(2)]
      [] presetName = "delayed_system" ->
             [kp |-> N(2), ki |-> Q(3, 5), kd |-> N(4)]
      [] OTHER -> Undef

\* applyPreset(presetName): the reset, the gains of the preset given to the
\* controller by the listener of the sliders, then the noise or the delay
\* the preset turns on
applyPreset(s, presetName) ==
    IF presets(presetName) = Undef THEN s
    ELSE LET r == resetSimulation(s)
             g == [r EXCEPT !.pid = setGains(@, presets(presetName).kp,
                                             presets(presetName).ki,
                                             presets(presetName).kd)]
         IN  IF presetName = "noisy_system"
             THEN toggleNoise(g, "true", Q(4, 5), Undef)
             ELSE IF presetName = "delayed_system"
             THEN toggleDelay(g, "true", Q(3, 20), Undef)
             ELSE g

\* new SimulationApp(): the plants, the controller, the analyzer and the
\* fields of the constructor, then switchPlant('mechanical')
SimulationApp(Kp, Ki, Kd) ==
    switchPlant(
        [ app |-> [ currentPlantType |-> "mechanical",
                    setpoint |-> plantConfigs("mechanical").setpoint,
                    isRunning |-> FALSE,
                    timeAccumulator |-> Zero,
                    lastFrameTime |-> Null,
                    labels |-> 0,
                    isDisturbanceActive |-> FALSE,
                    noiseButton |-> FALSE,
                    delayButton |-> FALSE,
                    disturbanceButton |-> FALSE ],
          plants |-> [t \in PlantTypes |->
                        IF t = "mechanical"
                        THEN MechanicalSystem(
                                 [NoParams EXCEPT !.inertia = N(1),
                                                  !.friction = Q(1, 5),
                                                  !.load = N(20)])
                        ELSE IndustrialPlant(t)],
          pid |-> AdvancedPIDController(Kp, Ki, Kd,
                      [NoOptions EXCEPT !.outputMin = N(-100),
                                        !.outputMax = N(100)]),
          an |-> PerformanceAnalyzer,
          scheduled |-> 0,
          raised |-> FALSE ],
        "mechanical")

\* the number of iterations of the loop in one unit of simulated time
\* (1 / SIMULATION_TIMESTEP_S, 25 in the source)
ticksPerSecond ==
    2

\* config.SIMULATION_TIMESTEP_S
SIMULATION_TIMESTEP_S ==
    Q(1, ticksPerSecond)

\* Math.floor of a finite number
MathFloor(x) ==
    x.n \div x.d

\* config.MAX_DATA_POINTS of main.js (300 in the source)
MaxChartPoints ==
    3

\* one call of a pass of the loop as the log of a frame keeps it
TickCall(op, args, returned) ==
    [ op |-> op, args |-> args, ret |-> returned ]

\* updateUI(pv, mv): the analyzer is given the length of the chart times the
\* timestep, then the chart takes the point and drops its oldest one above
\* MAX_DATA_POINTS; what it writes on the page is not part of this model
SimulationApp_updateUI(s, pv, mv) ==
    [s EXCEPT !.an = PerformanceAnalyzer_update(@,
                         Mul(N(s.app.labels), SIMULATION_TIMESTEP_S),
                         s.app.setpoint, pv, mv),
              !.app.labels = IF @ + 1 > MaxChartPoints THEN @ ELSE @ + 1]

\* the calls of a pass of the loop that does not step the plant with the
\* output
tickCallsWithoutPlantStep(s, pv, mv) ==
    << TickCall("plant.update", <<Zero, SIMULATION_TIMESTEP_S>>, pv),
       TickCall("pid.update", <<s.app.setpoint, pv, SIMULATION_TIMESTEP_S>>,
                mv),
       TickCall("analyzer.update",
                <<Mul(N(s.app.labels), SIMULATION_TIMESTEP_S), s.app.setpoint,
                  pv, mv>>, Undef) >>

\* the calls of one pass of the body of the while loop of simulationLoop, in
\* the order the pass makes them, no scenario being active: pv is the
\* measurement plant.update(0, dt) returns, mv the output pid.update returns
tickCalls(s, pv, mv) ==
    << TickCall("plant.update", <<Zero, SIMULATION_TIMESTEP_S>>, pv),
       TickCall("pid.update", <<s.app.setpoint, pv, SIMULATION_TIMESTEP_S>>,
                mv),
       TickCall("plant.update", <<mv, SIMULATION_TIMESTEP_S>>, Undef),
       TickCall("analyzer.update",
                <<Mul(N(s.app.labels), SIMULATION_TIMESTEP_S), s.app.setpoint,
                  pv, mv>>, Undef) >>

\* one pass of the body of the while loop. f is a frame in progress: f.sim
\* the driver, f.io[k] the <<pv, mv>> the plant and the controller return
\* in the k-th pass of the frame, f.k the pass, f.calls the calls made so
\* far. The plant and the controller are represented by these two values:
\* what the two calls do to them is the matter of the specifications of the
\* plant and of the controller
simulationTick(f, pv, mv) ==
    [f EXCEPT !.sim = [SimulationApp_updateUI(@, pv, mv) EXCEPT
                          !.app.timeAccumulator =
                              Sub(@, SIMULATION_TIMESTEP_S)],
              !.calls = @ \o tickCalls(f.sim, pv, mv),
              !.k = @ + 1]

\* the while loop of simulationLoop
RECURSIVE whileAccumulated(_)
whileAccumulated(f) ==
    IF Ge(f.sim.app.timeAccumulator, SIMULATION_TIMESTEP_S)
    THEN whileAccumulated(
             simulationTick(f, f.io[((f.k - 1) % Len(f.io)) + 1][1],
                            f.io[((f.k - 1) % Len(f.io)) + 1][2]))
    ELSE f

\* the time simulationLoop takes for the frame before
lastFrame(s, currentTime) ==
    IF Truthy(s.app.lastFrameTime) THEN s.app.lastFrameTime ELSE currentTime

\* simulationLoop(currentTime), the callback of requestAnimationFrame
SimulationApp_simulationLoop(f, currentTime) ==
    IF ~f.sim.app.isRunning THEN f
    ELSE [whileAccumulated(
              [f EXCEPT !.sim.app.lastFrameTime = currentTime,
                        !.sim.app.timeAccumulator =
                            Add(@, Div(Sub(currentTime,
                                           lastFrame(f.sim, currentTime)),
                                       N(1000)))])
          EXCEPT !.sim.scheduled = @ + 1]

\* an animation frame: each of the n callbacks that were pending is called
\* with the timestamp of the frame
RECURSIVE runCallbacks(_, _, _)
runCallbacks(f, currentTime, n) ==
    IF n = 0 THEN f
    ELSE runCallbacks(SimulationApp_simulationLoop(f, currentTime),
                      currentTime, n - 1)

\* ------------------------------------------------------------------------
\* The driver and its handlers
\* ------------------------------------------------------------------------

\* the number of handlers that run in a run
MaxHandlers ==
    3

\* the plant a user may select, and a key this.plants does not have
SwitchInputs ==
    PlantTypes \cup {"unknown"}

\* <<forceState, amplitude, value of the noise slider>>: the button, and the
\* calls of applyPreset and resetSimulation
ToggleNoiseInputs ==
    { <<"undefined", Undef, Q(1, 2)>>, <<"true", Q(4, 5), Q(1, 2)>>,
      <<"false", Undef, Q(1, 2)>> }

\* <<forceState, delayTime, value of the delay slider>>
ToggleDelayInputs ==
    { <<"undefined", Undef, Q(1, 10)>>, <<"true", Q(3, 20), Q(1, 10)>>,
      <<"false", Undef, Q(1, 10)>> }

\* the presets of the page, and a name this.presets does not have
PresetInputs ==
    {"p_only", "pid_damped", "noisy_system", "delayed_system", "unknown"}

InitApp ==
    /\ sim = SimulationApp(N(1), Zero, Zero)
    /\ acall = NoAppCall
    /\ nHandled = 0
    /\ now = Zero
    /\ ticks = <<>>
    /\ PidIdle
    /\ PlantIdle
    /\ AnalyzerIdle
    /\ TunerIdle
    /\ ScenarioIdle

\* the bookkeeping of a handler: after is the driver as the handler leaves it
Handled(op, after) ==
    /\ nHandled < MaxHandlers
    /\ nHandled' = nHandled + 1
    /\ sim' = after
    /\ acall' = [op |-> op, before |-> sim]
    /\ UNCHANGED <<now, ticks, OutsideApp>>

\* the driver with the outcome of the handler before forgotten
Ready ==
    [sim EXCEPT !.raised = FALSE]

SwitchPlant ==
    \E t \in SwitchInputs : Handled("switchPlant", switchPlant(Ready, t))

ToggleNoise ==
    \E i \in ToggleNoiseInputs :
        Handled("toggleNoise", toggleNoise(Ready, i[1], i[2], i[3]))

ToggleDelay ==
    \E i \in ToggleDelayInputs :
        Handled("toggleDelay", toggleDelay(Ready, i[1], i[2], i[3]))

ToggleDisturbance ==
    Handled("toggleDisturbance", toggleDisturbance(Ready))

ResetSimulation ==
    Handled("resetSimulation", resetSimulation(Ready))

ApplyPreset ==
    \E n \in PresetInputs : Handled("applyPreset", applyPreset(Ready, n))

NextApp ==
    \/ SwitchPlant
    \/ ToggleNoise
    \/ ToggleDelay
    \/ ToggleDisturbance
    \/ ResetSimulation
    \/ ApplyPreset

SpecApp ==
    InitApp /\ [][NextApp]_vars

\* ------------------------------------------------------------------------
\* The driver and its animation frames
\* ------------------------------------------------------------------------

\* the milliseconds between two animation frames
FrameElapsed ==
    { N(250), N(500), N(1500) }

\* the <<measurement, output>> the plant and the controller return in the
\* passes of a frame
TickValues ==
    { << <<N(0), N(100)>>, <<N(40), N(40)>>, <<N(90), N(-10)>> >>,
      << <<N(20), N(60)>>, <<N(20), N(60)>>, <<N(20), N(60)>> >> }

\* the plants selected in the runs with frames
LoopSwitchInputs ==
    {"temperature", "unknown"}

\* the presets applied in the runs with frames
LoopPresetInputs ==
    {"pid_damped"}

Start ==
    Handled("start", start(Ready))

Stop ==
    Handled("stop", stop(Ready))

LoopSwitchPlant ==
    \E t \in LoopSwitchInputs : Handled("switchPlant", switchPlant(Ready, t))

LoopApplyPreset ==
    \E n \in LoopPresetInputs : Handled("applyPreset", applyPreset(Ready, n))

\* the browser runs an animation frame
Frame ==
    \E e \in FrameElapsed, io \in TickValues :
        /\ nHandled < MaxHandlers
        /\ sim.scheduled > 0
        /\ LET r == runCallbacks([sim |-> [Ready EXCEPT !.scheduled = 0],
                                  io |-> io, k |-> 1, calls |-> <<>>],
                                 Add(now, e), sim.scheduled)
           IN  /\ sim' = r.sim
               /\ ticks' = r.calls
        /\ now' = Add(now, e)
        /\ nHandled' = nHandled + 1
        /\ acall' = [op |-> "frame", before |-> sim]
        /\ UNCHANGED OutsideApp

NextLoop ==
    \/ Start
    \/ Stop
    \/ ResetSimulation
    \/ LoopApplyPreset
    \/ LoopSwitchPlant
    \/ Frame

SpecLoop ==
    InitApp /\ [][NextLoop]_vars


\* ------------------------------------------------------------------------
\* The auto-tuner of SimulationApp (src/unnamed/part_000)
\* ------------------------------------------------------------------------

\* The driver of part_000 is modelled by the fields its auto-tuner reads and
\* writes: isAutoTuning, autoTune, kpIncreasedThisSecond, setpoint, the
\* controller, the three gain sliders, the process-variable series of the
\* chart (its labels have the same length), the text of the smart tip,
\* activeScenario, and the number of pending setTimeout(resetSimulation).
\* The plant and the analyzer are represented by the process variable each
\* iteration of the loop measures and by the kind of text updateUI writes;
\* pid.update assigns no gain and is represented by nothing.

\* config.MAX_DATA_POINTS (300 in the source)
MAX_DATA_POINTS ==
    11

\* AdvancedPIDController.autoTuneZieglerNichols(ultimateGain, ultimatePeriod)
autoTuneZieglerNichols(p, ultimateGain, ultimatePeriod) ==
    LET Ku == ultimateGain
        Tu == ultimatePeriod
        q == [p EXCEPT !.Kp = Mul(Q(6, 10), Ku),
                       !.Ki = Div(Mul(Q(12, 10), Ku), Tu),
                       !.Kd = Div(Mul(Mul(Q(6, 10), Ku), Tu), N(8))]
    IN  [ pid |-> q,
          ret |-> [Kp |-> q.Kp, Ki |-> q.Ki, Kd |-> q.Kd,
                   method |-> "Ziegler-Nichols"] ]

\* the gains of a PI controller, with no derivative gain
ZieglerNicholsWithoutKd(Ku, Tu) ==
    [ Kp |-> Mul(Q(6, 10), Ku),
      Ki |-> Div(Mul(Q(12, 10), Ku), Tu),
      Kd |-> Zero ]

\* the gains finishAutoTune computes from Ku and Tu
ZieglerNichols(Ku, Tu) ==
    [ Kp |-> Mul(Q(6, 10), Ku),
      Ki |-> Div(Mul(Q(12, 10), Ku), Tu),
      Kd |-> Div(Mul(Mul(Q(6, 10), Ku), Tu), N(8)) ]

NoPeak ==
    [value |-> NInf, time |-> Zero]

NoTrough ==
    [value |-> PInf, time |-> Zero]

\* the listener of the three gain sliders.  A slider is modelled as holding
\* the value assigned to it: the rounding a range input applies to its value
\* is set by the page, which is not part of the sources.
updateFromSliders(t) ==
    [t EXCEPT !.pid = setGains(@, t.sliders.kp, t.sliders.ki, t.sliders.kd)]

\* resetSimulation() of part_000
AutoTune_resetSimulation(t) ==
    [t EXCEPT !.pid = reset(@), !.history = << >>]

\* startAutoTune()
startAutoTune(t) ==
    IF t.isAutoTuning THEN t
    ELSE LET cleared == [t EXCEPT !.isAutoTuning = TRUE,
                                  !.autoTune.peaks = << >>,
                                  !.autoTune.lastPeak = NoPeak,
                                  !.autoTune.lastTrough = NoTrough]
             r == AutoTune_resetSimulation(cleared)
         IN  [r EXCEPT !.pid = setGains(@, t.autoTune.initialKp, Zero, Zero),
                       !.sliders = [kp |-> t.autoTune.initialKp,
                                    ki |-> Zero, kd |-> Zero],
                       !.tip = "searching"]

\* finishAutoTune()
finishAutoTune(t) ==
    LET off == [t EXCEPT !.isAutoTuning = FALSE]
        Ku == t.autoTune.ultimateGain
        Tu == t.autoTune.oscillationPeriod
    IN  IF Le(Ku, Zero) \/ Le(Tu, Zero)
        THEN [off EXCEPT !.tip = "failed"]
        ELSE LET g == ZieglerNichols(Ku, Tu)
                 applied == [off EXCEPT !.pid = setGains(@, g.Kp, g.Ki, g.Kd),
                                        !.sliders = [kp |-> g.Kp, ki |-> g.Ki,
                                                     kd |-> g.Kd]]
                 \* the three input events dispatched on the sliders
                 echoed == updateFromSliders(updateFromSliders(
                               updateFromSliders(applied)))
             IN  [echoed EXCEPT !.tip = "applied", !.timers = @ + 1]

\* the amplitudes of the first and the last of the four peaks differ by less
\* than a tenth of the setpoint
oscillationWithinTenth(peaks, setpoint) ==
    Lt(MathAbs(Sub(peaks[4].value, peaks[1].value)), Mul(setpoint, Q(1, 10)))

\* the stability criterion of runAutoTuneLogic on the four peaks kept
oscillationIsStable(peaks, setpoint) ==
    Lt(MathAbs(Sub(peaks[4].value, peaks[1].value)), Mul(setpoint, Q(5, 100)))

\* runAutoTuneLogic(pv, currentTime)
runAutoTuneLogic(t, pv, currentTime) ==
    LET history == t.history
        len == Len(history)
    IN  IF len < 3 THEN t
        ELSE
          LET prevPv == history[len - 1]
              newPeak == /\ Lt(pv, prevPv)
                         /\ Lt(history[len - 2], prevPv)
                         /\ Lt(t.autoTune.lastPeak.value, prevPv)
              peak == [value |-> prevPv, time |-> currentTime]
              recorded == IF newPeak
                          THEN [t EXCEPT !.autoTune.lastPeak = peak,
                                         !.autoTune.peaks = Append(@, peak)]
                          ELSE t
              full == newPeak /\ Len(recorded.autoTune.peaks) > 4
              kept == IF full
                      THEN [recorded EXCEPT !.autoTune.peaks = Tail(@)]
                      ELSE recorded
              peaks == kept.autoTune.peaks
              stable == full /\ oscillationIsStable(peaks, t.setpoint)
              floor == MathFloor(currentTime)
              newKp == Add(getConfiguration(kept.pid).snap.gains.Kp,
                           kept.autoTune.kpStep)
          IN  IF stable
              THEN finishAutoTune(
                     [kept EXCEPT
                        !.autoTune.ultimateGain =
                            getConfiguration(kept.pid).snap.gains.Kp,
                        !.autoTune.oscillationPeriod =
                            Div(Sub(peaks[4].time, peaks[1].time),
                                N(Len(peaks) - 1))])
              ELSE IF floor % 5 = 0 /\ floor > 0
                      /\ ~kept.kpIncreasedThisSecond
              THEN [kept EXCEPT !.pid = setGains(@, newKp, Zero, Zero),
                                !.sliders.kp = newKp,
                                !.kpIncreasedThisSecond = TRUE]
              ELSE IF floor % 5 # 0
              THEN [kept EXCEPT !.kpIncreasedThisSecond = FALSE]
              ELSE kept

\* updateUI(pv, mv): the smart tip and the process-variable series
updateUI(t, pv) ==
    LET pushed == Append(t.history, pv)
    IN  [t EXCEPT !.tip = IF ~t.activeScenario THEN "advice" ELSE @,
                  !.history = IF Len(pushed) > MAX_DATA_POINTS
                              THEN Tail(pushed) ELSE pushed]

\* one iteration of the while loop of simulationLoop, pv being the process
\* variable the plant reports
simulationLoop(t, pv) ==
    LET currentTime == Mul(N(Len(t.history)), SIMULATION_TIMESTEP_S)
        tuned == IF t.isAutoTuning
                 THEN runAutoTuneLogic(t, pv, currentTime)
                 ELSE t
    IN  updateUI(tuned, pv)

\* new SimulationApp() of part_000, the gain sliders holding Kp, Ki and Kd
AutoTuneApp(Kp, Ki, Kd) ==
    AutoTune_resetSimulation(
        [ isAutoTuning |-> FALSE,
          autoTune |-> [ initialKp |-> Q(1, 2),
                         kpStep |-> Q(1, 5),
                         lastPeak |-> NoPeak,
                         lastTrough |-> NoTrough,
                         peaks |-> << >>,
                         oscillationPeriod |-> Zero,
                         ultimateGain |-> Zero ],
          kpIncreasedThisSecond |-> FALSE,
          setpoint |-> N(80),
          pid |-> AdvancedPIDController(Kp, Ki, Kd,
                      [NoOptions EXCEPT !.outputMin = N(-100),
                                        !.outputMax = N(100)]),
          sliders |-> [kp |-> Kp, ki |-> Ki, kd |-> Kd],
          history |-> << >>,
          tip |-> "",
          activeScenario |-> FALSE,
          timers |-> 0 ])

\* ------------------------------------------------------------------------
\* The auto-tuner driven by the loop and the user
\* ------------------------------------------------------------------------

\* the number of iterations of the loop in a run
MaxTicks ==
    21

\* The process variable the plant reports, iteration after iteration, from
\* its reset on: an oscillation whose peaks grow slowly, one whose peaks grow
\* fast, a bump followed by a late slowly growing oscillation, and one early
\* overshoot.  A response is repeated when it is exhausted.
Responses ==
    << <<0, 1, 2, 0, 0, 3, 4, 0, 0, 5, 6, 0, 0, 7, 8, 0, 0, 9>>,
       <<0, 2, 4, 0, 0, 6, 8, 0, 0, 10, 12, 0, 0, 14, 16, 0, 0, 18>>,
       <<0, 1, 0, 0, 0, 0, 0, 0, 0, 2, 3, 0, 0, 4, 5, 0, 0, 0>>,
       <<0, 5, 0, 0, 0, 0>> >>

\* the initial positions of the gain sliders
SliderInputs ==
    { <<N(1), Zero, Zero>>, <<N(2), Q(1, 2), N(1)>> }

InitTuner ==
    /\ \E g \in SliderInputs : tuner = AutoTuneApp(g[1], g[2], g[3])
    /\ tcall = NoTunerCall
    /\ response \in DOMAIN Responses
    /\ phase = 0
    /\ nTicks = 0
    /\ PidIdle
    /\ PlantIdle
    /\ AnalyzerIdle
    /\ AppIdle
    /\ ScenarioIdle

\* the process variable of the next iteration
NextPv ==
    N(Responses[response][(phase % Len(Responses[response])) + 1])

\* one iteration of the loop
AutoTuneTick ==
    /\ nTicks < MaxTicks
    /\ nTicks' = nTicks + 1
    /\ tuner' = simulationLoop(tuner, NextPv)
    /\ tcall' = [op |-> "simulationLoop", before |-> tuner]
    /\ phase' = phase + 1
    /\ UNCHANGED <<response, OutsideTuner>>

\* the plant starts a response anew when it is reset
PlantRestarts ==
    /\ response' \in DOMAIN Responses
    /\ phase' = 0

\* a click on the auto-tune button
StartAutoTune ==
    /\ tuner' = startAutoTune(tuner)
    /\ tcall' = [op |-> "startAutoTune", before |-> tuner]
    /\ IF tuner.isAutoTuning THEN UNCHANGED <<response, phase>>
                             ELSE PlantRestarts
    /\ UNCHANGED <<nTicks, OutsideTuner>>

\* a click on the reset button
AutoTuneReset ==
    /\ tuner' = AutoTune_resetSimulation(tuner)
    /\ tcall' = [op |-> "resetSimulation", before |-> tuner]
    /\ PlantRestarts
    /\ UNCHANGED <<nTicks, OutsideTuner>>

\* the timer finishAutoTune set runs resetSimulation
AutoTuneTimer ==
    /\ tuner.timers > 0
    /\ tuner' = AutoTune_resetSimulation([tuner EXCEPT !.timers = @ - 1])
    /\ tcall' = [op |-> "timer", before |-> tuner]
    /\ PlantRestarts
    /\ UNCHANGED <<nTicks, OutsideTuner>>

NextTuner ==
    \/ AutoTuneTick
    \/ StartAutoTune
    \/ AutoTuneReset
    \/ AutoTuneTimer

SpecTuner ==
    InitTuner /\ [][NextTuner]_vars

\* ------------------------------------------------------------------------
\* EducationalScenarios (src/unnamed/part_001)
\* ------------------------------------------------------------------------

\* the keys of this.scenarios
ScenarioIds ==
    { "gain_effects", "tuning_methods", "disturbance_rejection",
      "setpoint_tracking", "nonlinear_effects", "noise_filtering" }

\* this.scenarios[scenarioId].steps: the duration of each step in seconds
stepDurations(scenarioId) ==
    CASE scenarioId = "gain_effects" -> <<10, 15, 20, 15>>
      [] scenarioId = "tuning_methods" -> <<15, 20, 20, 20>>
      [] scenarioId = "disturbance_rejection" -> <<10, 10, 10>>
      [] scenarioId = "setpoint_tracking" -> <<35, 30, 30>>
      [] scenarioId = "nonlinear_effects" -> <<15, 20, 20>>
      [] scenarioId = "noise_filtering" -> <<15, 15, 15, 15>>
      [] OTHER -> <<>>

\* the object before startScenario: e.timeouts the times at which the
\* callbacks of setTimeout are due, in the order they were set, e.called
\* the callbacks invoked with the number of the step they were given
EducationalScenarios ==
    [ currentScenario |-> "null", currentStep |-> 0, stepStartTime |-> 0,
      isRunning |-> FALSE, timeouts |-> <<>>, called |-> <<>> ]

Invoked(callback, step) ==
    [ callback |-> callback, step |-> step ]

\* completeScenario()
completeScenario(e) ==
    [e EXCEPT !.isRunning = FALSE,
              !.called = Append(@, Invoked("onScenarioComplete",
                              Len(stepDurations(e.currentScenario)))),
              !.currentScenario = "null",
              !.currentStep = 0]

\* executeCurrentStep() at time t
executeCurrentStep(e, t) ==
    IF ~e.isRunning \/ e.currentScenario = "null" THEN e
    ELSE IF e.currentStep + 1 > Len(stepDurations(e.currentScenario))
    THEN completeScenario(e)
    ELSE [e EXCEPT !.called = Append(@, Invoked("onStepStart",
                                                e.currentStep + 1)),
                   !.stepStartTime = t]

\* startScenario(scenarioId, callbacks) at time t: an unknown id throws
startScenario(e, scenarioId, t) ==
    IF scenarioId \notin ScenarioIds THEN e
    ELSE executeCurrentStep([e EXCEPT !.currentScenario = scenarioId,
                                      !.currentStep = 0,
                                      !.stepStartTime = 0,
                                      !.isRunning = TRUE], t)

\* nextStep() at time t
nextStep(e, t) ==
    IF ~e.isRunning \/ e.currentScenario = "null" THEN e
    ELSE LET ended == [e EXCEPT !.called = Append(@, Invoked("onStepEnd",
                                                   e.currentStep + 1)),
                                !.currentStep = @ + 1]
         IN  IF ended.currentStep >= Len(stepDurations(e.currentScenario))
             THEN completeScenario(ended)
             ELSE [ended EXCEPT !.timeouts = Append(@, t + 1000)]

\* update(currentTime) at time t: the object after the call (the
\* configuration it returns is not part of this model). A step that is not
\* defined cannot be current while the scenario runs
EducationalScenarios_update(e, t) ==
    IF ~e.isRunning \/ e.currentScenario = "null" THEN e
    ELSE IF e.currentStep + 1 > Len(stepDurations(e.currentScenario)) THEN e
    ELSE IF t - e.stepStartTime
                >= 1000 * stepDurations(e.currentScenario)[e.currentStep + 1]
    THEN nextStep(e, t)
    ELSE e

\* the ids a user may start, and one the object does not have
ScenarioInputs ==
    ScenarioIds \cup {"unknown"}

\* the milliseconds between two passes of the loop of the driver: the
\* passes of one frame, the passes of two frames, a slow frame
TickMs ==
    { 0, 40, 1000 }

InitScenario ==
    /\ es = EducationalScenarios
    /\ clock_ms = 0
    /\ PidIdle
    /\ PlantIdle
    /\ AnalyzerIdle
    /\ AppIdle
    /\ TunerIdle

\* the user starts a scenario, none having been started
StartScenario ==
    \E id \in ScenarioInputs :
        /\ es.called = <<>>
        /\ es.currentScenario = "null"
        /\ es' = startScenario(es, id, clock_ms)
        /\ UNCHANGED <<clock_ms, OutsideScenario>>

\* a pass of the loop of the driver calls update, while a scenario is
\* active or a timeout is pending; a pass does not come later than a
\* timeout that is due
ScenarioTick ==
    \E d \in TickMs :
        /\ es.isRunning \/ es.timeouts # <<>>
        /\ es.timeouts # <<>> => clock_ms + d <= Head(es.timeouts)
        /\ es.timeouts # <<>> /\ ~es.isRunning => d > 0
        /\ clock_ms' = clock_ms + d
        /\ es' = EducationalScenarios_update(es, clock_ms + d)
        /\ UNCHANGED OutsideScenario

\* the callback of a setTimeout that is due runs
TimeoutFires ==
    /\ es.timeouts # <<>>
    /\ Head(es.timeouts) <= clock_ms
    /\ es' = executeCurrentStep([es EXCEPT !.timeouts = Tail(@)], clock_ms)
    /\ UNCHANGED <<clock_ms, OutsideScenario>>

NextScenario ==
    \/ StartScenario
    \/ ScenarioTick
    \/ TimeoutFires

SpecScenario ==
    InitScenario /\ [][NextScenario]_vars

\* ------------------------------------------------------------------------
\* Properties
\* ------------------------------------------------------------------------

\* the last call was an update with deltaTime > 0
EffectiveUpdate(c) ==
    c.op = "update" /\ Lt(Zero, c.dt)

\* a configuration the data model allows
ValidConfiguration(p) ==
    /\ Lt(p.config.outputMin, p.config.outputMax)
    /\ p.config.antiWindupMethod \in {"clamping", "back-calculation"}
    /\ p.config.integralMode \in {"standard", "conditional"}

SetterNames ==
    {"setGains", "setOutputLimits", "setSetpointWeighting", "setDerivativeFilter"}

\* C1: outside manual mode and under a valid configuration, every value
\* update returns for deltaTime > 0 lies within [outputMin, outputMax].
C1_OutputWithinLimits ==
    (EffectiveUpdate(call) /\ ~call.manual /\ ValidConfiguration(pid))
        => (Le(pid.config.outputMin, ret) /\ Le(ret, pid.config.outputMax))

\* C2: update with deltaTime <= 0 returns the previous output and leaves the
\* whole controller (state, terms, metrics, simulationTime) as it was.
C2_InvalidTimestepMutatesNothing ==
    [][ (call'.op = "update" /\ Le(call'.dt, Zero))
            => (pid' = pid /\ ret' = pid.state.lastOutput) ]_vars

\* C3: in manual mode an update with deltaTime > 0 returns the stored manual
\* output and leaves the integral accumulator, the filtered derivative,
\* lastError, lastPV and the three terms unchanged.
C3_ManualUpdateFreezes ==
    [][ (EffectiveUpdate(call') /\ pid.state.isManual)
            => /\ ret' = pid.state.manualOutput
               /\ pid'.state.integralSum = pid.state.integralSum
               /\ pid'.state.derivativeFiltered = pid.state.derivativeFiltered
               /\ pid'.state.lastError = pid.state.lastError
               /\ pid'.state.lastPV = pid.state.lastPV
               /\ pid'.terms.proportional = pid.terms.proportional
               /\ pid'.terms.integral = pid.terms.integral
               /\ pid'.terms.derivative = pid.terms.derivative ]_vars

\* a manual update whose arguments differ from what the controller stored
\* during automatic ticks that built up an integral
C3_Witness ==
    /\ EffectiveUpdate(call)
    /\ call.manual
    /\ ret = N(5)
    /\ pid.state.integralSum # Zero
    /\ call.pv # pid.state.lastPV
    /\ Sub(call.sp, call.pv) # pid.state.lastError

\* C4: the first update after a switch from automatic to manual returns what
\* the last automatic update returned.
C4_ManualStartsAtLastOutput ==
    (EffectiveUpdate(call) /\ call.first = "toManual" /\ call.auto)
        => ret = call.lastAuto

\* C5: with Ki # 0 and setpoint and pv unchanged, the first automatic update
\* after switching to manual and back differs from the automatic output before
\* the transfer by less than 0.01.
C5_BumplessReturnToAuto ==
    (EffectiveUpdate(call) /\ call.first = "toAuto" /\ call.same
       /\ pid.Ki # Zero)
        => Lt(MathAbs(Sub(ret, call.lastAuto)), Q(1, 100))

\* C6: with Ki = 0 the division by Ki is skipped: a manual-to-automatic
\* setManualMode leaves the integral accumulator and term as they were, and a
\* saturating update under clamping leaves them as the integration step of
\* that tick made them (finite).
C6_ZeroKiSkipsAdjustment ==
    [][ pid.Ki = Zero
            => /\ (call'.op = "setManualMode" /\ call'.tr = "toAuto")
                    => /\ pid'.state.integralSum = pid.state.integralSum
                       /\ pid'.terms.integral = pid.terms.integral
               /\ (EffectiveUpdate(call') /\ ~call'.manual /\ call'.sat
                     /\ ValidConfiguration(pid)
                     /\ pid.config.antiWindupMethod = "clamping"
                     /\ IsFin(pid.state.integralSum))
                    => /\ IsFin(pid'.state.integralSum)
                       /\ IsFin(pid'.terms.integral)
                       /\ pid'.state.integralSum =
                            integrate(pid, Sub(call'.sp, call'.pv), call'.dt) ]_vars

\* C7: after reset() the controller equals a freshly constructed controller
\* of the same gains and configuration, and stays equal to it, returned values
\* included, under the same calls.
C7_ResetEqualsFresh ==
    twin.on => (pid = twin.pid /\ ret = twin.ret)

\* an update after the reset of a controller whose state and terms had moved
C7_Witness ==
    /\ twin.on
    /\ twin.dirty
    /\ EffectiveUpdate(call)
    /\ ret # Zero
    /\ pid.state.derivativeFiltered # Zero

C9_SettersNotRetroactive ==
    [][ /\ call'.op \in SetterNames
            => /\ pid'.state = pid.state
               /\ pid'.terms = pid.terms
               /\ pid'.metrics = pid.metrics
        /\ (EffectiveUpdate(call') /\ ~call'.manual /\ ~call'.sat
              /\ pid.config.integralMode = "standard"
              /\ IsFin(pid.state.integralSum) /\ IsFin(pid.terms.integral))
            => pid'.terms.integral =
                 Add(pid.terms.integral,
                     Mul(pid.Ki, Mul(Sub(call'.sp, call'.pv), call'.dt))) ]_vars

\* C10: the configuration always has outputMin < outputMax.
C10_LimitsOrdered ==
    Lt(pid.config.outputMin, pid.config.outputMax)

\* ------------------------------------------------------------------------
\* Properties of the mechanical plant
\* ------------------------------------------------------------------------

\* the last call on the plant was an update made with the delay enabled
DelayedUpdate ==
    pcall.op = "update" /\ pcall.before.systemDelay.enabled

\* C11: a plant update called with dt <= 0 leaves the physical state, the
\* simulation time and the delay buffer as they were and returns a snapshot
\* of that unchanged state
C11_NonPositiveDtIsNoOp ==
    (pcall.op = "update" /\ Le(pcall.dt, Zero)) =>
        /\ plant.state = pcall.before.state
        /\ plant.simulationTime = pcall.before.simulationTime
        /\ plant.systemDelay.buffer = pcall.before.systemDelay.buffer
        /\ pcall.snap.position = pcall.before.state.position
        /\ pcall.snap.velocity = pcall.before.state.velocity

\* C12: after disableDelay() the buffer is empty, a plant whose delay is
\* enabled again starts from an empty buffer, and an update made with the
\* delay enabled applies a value passed in since the last disableDelay(),
\* never one buffered before it
C12_DisableDelayEmptiesBuffer ==
    /\ pcall.op = "disableDelay" => plant.systemDelay.buffer = <<>>
    /\ (pcall.op = "enableDelay" /\ ~pcall.before.systemDelay.enabled) =>
           plant.systemDelay.buffer = <<>>
    /\ DelayedUpdate => pcall.applied \in fed

\* an update with the delay enabled, after a disableDelay() that dropped
\* buffered values, applies a value that is none of the dropped ones
C12_Witness ==
    /\ DelayedUpdate
    /\ dropped # {}
    /\ pcall.applied \notin dropped
    /\ pcall.applied \in fed

\* C13: after reset() the position and the velocity are those of
\* construction, the buffer is empty, the simulation time is zero and the
\* configuration is what it was before the call
C13_ResetRestoresInitialState ==
    pcall.op = "reset" =>
        /\ plant.state = built.state
        /\ plant.systemDelay.buffer = <<>>
        /\ plant.simulationTime = Zero
        /\ plant.inertia = pcall.before.inertia
        /\ plant.friction = pcall.before.friction
        /\ plant.load = pcall.before.load
        /\ plant.sensorNoise = pcall.before.sensorNoise
        /\ plant.systemDelay.enabled = pcall.before.systemDelay.enabled
        /\ plant.systemDelay.time = pcall.before.systemDelay.time

\* C14: the plant and the plant given the same calls with its noise never
\* turned on have the same position and velocity after every call
C14_NoiseLeavesStateAlone ==
    plant.state = quiet.state

\* an update of a plant with noise enabled reported a measured position that
\* is not its position
C14_Witness ==
    /\ pcall.op = "update"
    /\ pcall.before.sensorNoise.enabled
    /\ pcall.snap.measuredPosition # pcall.snap.position
    /\ plant.state.position = pcall.snap.position

\* the entries of the buffer that are not after now - delayTime
Eligible ==
    {i \in 1..Len(plant.systemDelay.buffer) :
        Le(plant.systemDelay.buffer[i].time,
           Sub(plant.simulationTime, plant.systemDelay.time))}

\* C19: after an update with the delay enabled the buffer holds no entry
\* older than 3 x delayTime, and the applied input is the value of an entry
\* with the latest timestamp not after now - delayTime when there is one
C19_DelayBufferPrunedAndLatestApplied ==
    DelayedUpdate =>
        /\ \A i \in 1..Len(plant.systemDelay.buffer) :
               ~Lt(plant.systemDelay.buffer[i].time,
                   Sub(plant.simulationTime,
                       Mul(plant.systemDelay.time, N(3))))
        /\ Eligible # {} =>
               \E i \in Eligible :
                   /\ plant.systemDelay.buffer[i].value = pcall.applied
                   /\ \A j \in Eligible :
                          Le(plant.systemDelay.buffer[j].time,
                             plant.systemDelay.buffer[i].time)

\* ------------------------------------------------------------------------
\* Properties of the analyzer
\* ------------------------------------------------------------------------

\* weight times what x has beyond limit, 0 when x is not beyond it
Beyond(x, limit, weight) ==
    IF Lt(limit, x) THEN Mul(Sub(x, limit), weight) ELSE Zero

\* 100 minus the four penalties
PenalizedScore(m) ==
    Sub(Sub(Sub(Sub(N(100), Beyond(m.overshoot, N(20), N(2))),
                Mul(MathAbs(m.steadyStateError), N(10))),
            Beyond(ToNumber(m.settlingTime), N(10), N(2))),
        Beyond(m.controlVariability, N(50), Q(1, 2)))

\* C16: after every update performanceIndex is a number in [0, 100], equal
\* to 100 minus the four penalties clamped to that range
C16_PerformanceIndexIsClampedScore ==
    ancall.op = "update" =>
        /\ IsFin(an.metrics.performanceIndex)
        /\ Le(Zero, an.metrics.performanceIndex)
        /\ Le(an.metrics.performanceIndex, N(100))
        /\ an.metrics.performanceIndex =
               MathMax(Zero, MathMin(N(100), PenalizedScore(an.metrics)))

\* the five metrics of a step episode
EpisodeMetrics(a) ==
    << a.metrics.overshoot, a.metrics.undershoot, a.metrics.settlingTime,
       a.metrics.riseTime, a.metrics.peakTime >>

\* the episode an analyzer is in
Episode(a) ==
    << a.isStepResponse, a.stepStartTime, a.stepStartValue, a.stepEndValue >>

\* the last call was an update that had a sample before it, and its setpoint
\* differs from that sample's by more than 0.1
SetpointStepped ==
    /\ ancall.op = "update"
    /\ ancall.before.data.setpoint # <<>>
    /\ Lt(Q(1, 10),
          MathAbs(Sub(ancall.setpoint, Last(ancall.before.data.setpoint))))

\* the last call was an update that had a sample before it, and its setpoint
\* differs from that sample's by 0.1 or less
SetpointKept ==
    /\ ancall.op = "update"
    /\ ancall.before.data.setpoint # <<>>
    /\ Le(MathAbs(Sub(ancall.setpoint, Last(ancall.before.data.setpoint))),
          Q(1, 10))

WithoutSettings(s) ==
    IF s.app.currentPlantType = "mechanical"
    THEN [thePlant(s) EXCEPT
            !.sensorNoise = Undef,
            !.systemDelay = [enabled |-> FALSE, time |-> Undef,
                             buffer |-> @.buffer]]
    ELSE thePlant(s)

\* C15: whichever plant is selected, toggleNoise and toggleDelay complete
\* without raising and change only the noise or delay setting of that plant
C15_TogglesCompleteOnEveryPlant ==
    acall.op \in {"toggleNoise", "toggleDelay"} =>
        /\ ~sim.raised
        /\ \A t \in PlantTypes \ {sim.app.currentPlantType} :
               sim.plants[t] = acall.before.plants[t]
        /\ WithoutSettings(sim) = WithoutSettings(acall.before)
        /\ sim.pid = acall.before.pid
        /\ sim.an = acall.before.an

\* ------------------------------------------------------------------------
\* Properties of the auto-tuner
\* ------------------------------------------------------------------------

\* the gains of a controller
Gains(p) ==
    <<p.Kp, p.Ki, p.Kd>>

\* the last iteration of the loop ended the search
SearchFinished ==
    /\ tcall.op = "simulationLoop"
    /\ tcall.before.isAutoTuning
    /\ ~tuner.isAutoTuning

\* the search ended with a usable ultimate gain and period
Identified ==
    /\ SearchFinished
    /\ Lt(Zero, tuner.autoTune.ultimateGain)
    /\ Lt(Zero, tuner.autoTune.oscillationPeriod)

\* the search ended with a non-positive ultimate gain or period
SearchFailed ==
    /\ SearchFinished
    /\ \/ Le(tuner.autoTune.ultimateGain, Zero)
       \/ Le(tuner.autoTune.oscillationPeriod, Zero)

\* C17: when the search ends with a non-positive ultimate gain or period, the
\* iteration that ends it leaves the failure reported, the tuner inactive and
\* the gains of the controller as they were; and while the tuner is inactive
\* only startAutoTune makes it active again, the iterations of the loop
\* leaving the gains and the peaks alone.
C17_FailureReportedAndNothingApplied ==
    /\ SearchFailed =>
         /\ tuner.tip = "failed"
         /\ ~tuner.isAutoTuning
         /\ Gains(tuner.pid) = Gains(tcall.before.pid)
    /\ tcall.op # "new" /\ ~tcall.before.isAutoTuning
         /\ tcall.op # "startAutoTune" =>
         /\ ~tuner.isAutoTuning
         /\ tuner.autoTune = tcall.before.autoTune
         /\ tcall.op = "simulationLoop" =>
              Gains(tuner.pid) = Gains(tcall.before.pid)

C28_TotalIsReturnedOutput ==
    EffectiveUpdate(call) =>
        /\ ret = pid.state.lastOutput
        /\ getTerms(pid).snap.total = ret

\* the numeric options of the constructor
NumericOptions ==
    {"outputMin", "outputMax", "derivativeFilter", "setpointWeightP",
     "setpointWeightD"}

\* C29: the configuration of a freshly constructed controller holds every
\* option the constructor was passed, zero included; a default stands only
\* where the option was absent.
C29_PassedOptionsAreHeld ==
    call.op = "new" /\ given # Undef =>
        LET options == given[4]
            config == getConfiguration(pid).snap.config
        IN  /\ \A f \in NumericOptions :
                  options[f] # Undef => config[f] = options[f]
            /\ options.integralMode # "undefined" =>
                  config.integralMode = options.integralMode
            /\ options.antiWindupMethod # "undefined" =>
                  config.antiWindupMethod = options.antiWindupMethod

\* ------------------------------------------------------------------------
\* Properties of the analyzer: settling time
\* ------------------------------------------------------------------------

\* the last call was an update that computed the metrics of the episode
EpisodeMeasured ==
    /\ ancall.op = "update"
    /\ an.isStepResponse
    /\ an.stepStartTime # Null
    /\ Len(getStepResponseData(an)) >= minStepSamples
    /\ Le(Q(1, 10), MathAbs(Sub(an.stepEndValue, an.stepStartValue)))

\* the samples of the episode whose pv is more than 2% of the final setpoint
\* away from it
OutsideBand ==
    { i \in 1..Len(an.data.time) :
        /\ Ge(an.data.time[i], an.stepStartTime)
        /\ Lt(Mul(MathAbs(an.stepEndValue), Q(2, 100)),
              MathAbs(Sub(an.data.processVariable[i], an.stepEndValue))) }

\* C21: once the metrics of an episode are computed, settlingTime is the
\* time from the step to the last sample of the episode whose pv is outside
\* the band of +/-2% around the final setpoint, and null when no sample is
\* outside it, whatever the sign of the final setpoint
C21_SettlingTimeIsLastExcursion ==
    EpisodeMeasured =>
        an.metrics.settlingTime =
            IF OutsideBand = {} THEN Null
            ELSE Sub(an.data.time[MaxOf(OutsideBand)], an.stepStartTime)

\* ------------------------------------------------------------------------
\* Properties of the auto-tuner: the search
\* ------------------------------------------------------------------------

\* the last call was an iteration of the loop that began with the tuner
\* searching
SearchTick ==
    tcall.op = "simulationLoop" /\ tcall.before.isAutoTuning

\* that iteration recorded a peak
PeakRecorded ==
    tuner.autoTune.lastPeak # tcall.before.autoTune.lastPeak

\* C22: an iteration of a search ends the search exactly when it records a
\* peak, four or more peaks were recorded before it, and the amplitudes of
\* the first and the last of the last four peaks differ by less than 5% of
\* the setpoint; the ultimate gain is then the Kp the controller had and the
\* ultimate period a third of the time between those two peaks.
C22_SearchEndsOnStablePeaks ==
    SearchTick =>
        LET peaks == tuner.autoTune.peaks
        IN  /\ ~tuner.isAutoTuning <=>
                 /\ PeakRecorded
                 /\ Len(tcall.before.autoTune.peaks) = 4
                 /\ Lt(MathAbs(Sub(peaks[4].value, peaks[1].value)),
                       Mul(tuner.setpoint, Q(1, 20)))
            /\ ~tuner.isAutoTuning =>
                 /\ Len(peaks) = 4
                 /\ peaks[4] = tuner.autoTune.lastPeak
                 /\ tuner.autoTune.ultimateGain = tcall.before.pid.Kp
                 /\ tuner.autoTune.oscillationPeriod =
                        Div(Sub(peaks[4].time, peaks[1].time), N(3))

\* an iteration ended the search with a Kp that had been increased
C22_Witness ==
    /\ SearchTick
    /\ ~tuner.isAutoTuning
    /\ tuner.autoTune.ultimateGain # tuner.autoTune.initialKp
    /\ Lt(Zero, tuner.autoTune.oscillationPeriod)

\* the number of iterations since the plant was reset, the last one left out
Elapsed ==
    phase - 1

\* C23: an iteration that leaves the search going increases Kp by kpStep
\* when the simulated time since the reset has just reached a multiple of 5,
\* and leaves Kp alone otherwise, however long the search lasts.
C23_KpStepsEveryFiveUnits ==
    SearchTick /\ tuner.isAutoTuning =>
        tuner.pid.Kp =
            IF Elapsed > 0 /\ Elapsed % (5 * ticksPerSecond) = 0
            THEN Add(tcall.before.pid.Kp, tuner.autoTune.kpStep)
            ELSE tcall.before.pid.Kp

\* ------------------------------------------------------------------------
\* The disturbance flag of the driver
\* ------------------------------------------------------------------------

\* the value the selected plant holds for the disturbance plantConfigs names
AppliedDisturbance ==
    LET t == sim.app.currentPlantType
    IN  IF plantConfigs(t).type = "" THEN thePlant(sim).disturbance
        ELSE thePlant(sim).disturbances[
                 DisturbanceField(t, plantConfigs(t).type)]

\* C30: after any handlers of the driver, isDisturbanceActive is true
\* exactly when the selected plant holds its configured disturbance, and
\* false exactly when that plant holds a cleared one (0 or false)
C30_FlagMatchesSelectedPlant ==
    /\ sim.app.isDisturbanceActive
           => AppliedDisturbance
                  = plantConfigs(sim.app.currentPlantType).value
    /\ ~sim.app.isDisturbanceActive => AppliedDisturbance \in {Zero, JsFalse}

\* the plant was changed while the disturbance was on, and the handler
\* left the flag off
C30_Witness ==
    /\ acall.op = "switchPlant"
    /\ acall.before.app.isDisturbanceActive
    /\ acall.before.app.currentPlantType # sim.app.currentPlantType
    /\ ~sim.app.isDisturbanceActive

\* ------------------------------------------------------------------------
\* The animation frames of the driver
\* ------------------------------------------------------------------------

\* the seconds simulationLoop counts between the frame before the last
\* handler and that frame: none for the first frame after start()
FrameSeconds ==
    IF Truthy(acall.before.app.lastFrameTime)
    THEN Div(Sub(now, acall.before.app.lastFrameTime), N(1000))
    ELSE Zero

\* floor((accumulator + elapsed) / timestep) for the last frame of a running
\* driver, 0 for a driver that was stopped
TicksDue ==
    IF ~acall.before.app.isRunning THEN 0
    ELSE MathFloor(Div(Add(acall.before.app.timeAccumulator, FrameSeconds),
                       SIMULATION_TIMESTEP_S))

\* C24: a frame runs floor((accumulator + elapsed) / timestep) passes, and
\* every pass makes four calls in this order: the plant updated with input
\* 0, the controller updated with the setpoint and the measurement that
\* call returned, the plant updated with the output the controller
\* returned, the analyzer updated with that setpoint, measurement and
\* output
C24_TickOrderAndCount ==
    acall.op = "frame" =>
        /\ Len(ticks) = 4 * TicksDue
        /\ \A j \in 0..(TicksDue - 1) :
               /\ ticks[4 * j + 1].op = "plant.update"
               /\ ticks[4 * j + 1].args = <<Zero, SIMULATION_TIMESTEP_S>>
               /\ ticks[4 * j + 2].op = "pid.update"
               /\ ticks[4 * j + 2].args
                      = <<sim.app.setpoint, ticks[4 * j + 1].ret,
                          SIMULATION_TIMESTEP_S>>
               /\ ticks[4 * j + 3].op = "plant.update"
               /\ ticks[4 * j + 3].args
                      = <<ticks[4 * j + 2].ret, SIMULATION_TIMESTEP_S>>
               /\ ticks[4 * j + 4].op = "analyzer.update"
               /\ SubSeq(ticks[4 * j + 4].args, 2, 4)
                      = <<sim.app.setpoint, ticks[4 * j + 1].ret,
                          ticks[4 * j + 2].ret>>

\* a frame ran several passes on an accumulator that was not empty
C24_Witness ==
    /\ acall.op = "frame"
    /\ TicksDue >= 2
    /\ acall.before.app.timeAccumulator # Zero
    /\ Len(ticks) = 4 * TicksDue

\* C25: whatever handlers and frames ran, at most one simulationLoop
\* callback is pending, and a frame of a stopped driver runs no pass
C25_OneCallbackScheduled ==
    /\ sim.scheduled <= 1
    /\ acall.op = "frame" /\ ~acall.before.app.isRunning => ticks = <<>>

\* C26: since the last reset, the times the analyzer was given increase by
\* exactly one timestep from each sample to the next
C26_AnalyzerClockAdvances ==
    \A i \in 2..Len(sim.an.data.time) :
        Sub(sim.an.data.time[i], sim.an.data.time[i - 1])
            = SIMULATION_TIMESTEP_S

\* ------------------------------------------------------------------------
\* The steps of a scenario
\* ------------------------------------------------------------------------

\* the steps onStepStart was invoked for, in the order of the invocations
StepsStarted ==
    SelectSeq(es.called, LAMBDA c : c.callback = "onStepStart")

ScenarioCompleted ==
    SelectSeq(es.called, LAMBDA c : c.callback = "onScenarioComplete")

\* C27: once a scenario was started, onStepStart is invoked for the steps
\* 1, 2, ... in this order, each once, and onScenarioComplete is invoked at
\* most once, after onStepStart was invoked for every step
C27_EveryStepStartedOnceInOrder ==
    /\ \A i \in 1..Len(StepsStarted) : StepsStarted[i].step = i
    /\ Len(ScenarioCompleted) <= 1
    /\ Len(ScenarioCompleted) = 1
           => Len(StepsStarted) = ScenarioCompleted[1].step

====
